---- MODULE Spec2Model ----
(***************************************************************************)
(* Custom LLM endpoints of andreaswachs/sim: the credential store          *)
(* (lib/custom-llm/endpoints.ts), its HTTP routes, the model-identifier    *)
(* parsers and the request dispatcher (providers/index.ts).                *)
(*                                                                         *)
(* Strings that the code inspects character by character (model            *)
(* identifiers, endpoint names) are sequences of characters; the family    *)
(* prefixes "custom-google:" etc. are single characters of the alphabet,   *)
(* so that /^custom-google:/ is "the first character is the prefix".       *)
(* Opaque strings (ids, workspace ids, URLs, keys) are TLA+ strings.       *)
(***************************************************************************)
EXTENDS Integers, Sequences, FiniteSets, TLC

VARIABLES
    db,         \* the rows of table custom_llm_endpoints
    nextId,     \* how many ids nanoid() has handed out
    ops,        \* how many store functions have been called directly
    ret,        \* the latest direct store call and what it returned
    started,    \* how many HTTP requests have been received
    reqs,       \* the route handlers in flight, by slot: position and locals
    resp,       \* the HTTP response sent by the latest step, if it sent one
    parseIn,    \* the model string handed to a parser
    parseOut,   \* the parser that ran and what it returned
    dispatch,   \* the executeProviderRequest in flight: position and locals
    outcome,    \* how the latest executeProviderRequest ended, if the latest step ended one
    gone,       \* the names whose endpoint was deleted and not created again since
    lookup,     \* the getCustomEndpointByName in flight: position and locals
    form        \* the state of the settings form, and the mutation its latest step issued

vars == <<db, nextId, ops, ret, started, reqs, resp, parseIn, parseOut,
          dispatch, outcome, gone, lookup, form>>
tableVars == <<db, nextId>>
storeVars == <<ops, ret>>
routeVars == <<started, reqs, resp>>
parseVars == <<parseIn, parseOut>>
dispatchVars == <<dispatch, outcome, gone>>
resolveVars == <<lookup>>
formVars == <<form>>

-----------------------------------------------------------------------------
(* Bounds *)

MaxLen == 5         \* longest model string the parsers are run on
MaxOps == 3         \* direct store calls ever made
MaxRequests == 3    \* HTTP requests ever received
MaxInFlight == 2    \* route handlers running concurrently

-----------------------------------------------------------------------------
(* Strings *)

PrefixOpenAI == "custom-openai:"
PrefixAnthropic == "custom-anthropic:"
PrefixGoogle == "custom-google:"

Slash == "/"

\* characters accepted by /^[a-zA-Z0-9_-]+$/
NameChars == {"a", "b"}

Alphabet == NameChars \cup {Slash, PrefixOpenAI, PrefixAnthropic, PrefixGoogle}

RECURSIVE StringsUpTo(_)
StringsUpTo(n) ==
    IF n = 0 THEN {<<>>}
    ELSE LET shorter == StringsUpTo(n - 1)
         IN shorter \cup {Append(s, c) : s \in {t \in shorter : Len(t) = n - 1}, c \in Alphabet}

Range(s) == {s[i] : i \in 1..Len(s)}

\* String.prototype.replace(/^prefix/, ''): drops the prefix when the string starts with it
ReplacePrefix(s, prefix) ==
    IF Len(s) > 0 /\ s[1] = prefix THEN SubSeq(s, 2, Len(s)) ELSE s

\* String.prototype.indexOf(c): 0-based index of the first c, -1 when there is none
IndexOf(s, c) ==
    IF c \in Range(s)
    THEN (CHOOSE i \in 1..Len(s) : s[i] = c /\ \A j \in 1..(i - 1) : s[j] # c) - 1
    ELSE -1

\* String.prototype.slice(from, to) and slice(from), 0-based, to exclusive
Slice(s, from, to) == SubSeq(s, from + 1, to)
SliceFrom(s, from) == SubSeq(s, from + 1, Len(s))

-----------------------------------------------------------------------------
(* Values *)

\* an optional JavaScript value: undefined (omitted), null, or a value
Undefined == [k |-> "undefined"]
Null == [k |-> "null"]
Val(x) == [k |-> "val", v |-> x]

IsVal(o) == o.k = "val"

\* a test that is true of every string, the empty one included (used to test
\* the claims)
TruthyString_anyString(o) == o.k = "val"

\* JavaScript truthiness of an optional string: undefined, null and "" are falsy
TruthyString(o) == IsVal(o) /\ o.v # ""

Workspaces == {"w1", "w2"}
Users == {"alice", "bob"}

\* endpoint names: strings of NameChars
NameA == <<"a">>
NameB == <<"b">>
Names == {NameA, NameB}

HeaderNames == {"h1", "h2"}
HeaderValues == {"v1", "v2"}
ApiKeys == {"k1", "k2"}

\* a Record<string, string>: a function from a set of header names to values
EmptyHeaders == [h \in {} |-> "v1"]
Headers1 == [h \in {"h1"} |-> "v1"]
Headers2 == [h \in {"h1", "h2"} |-> IF h = "h1" THEN "v2" ELSE "v1"]

ObjectKeys(o) == DOMAIN o

\* JSON.stringify / JSON.parse of a header mapping
JsonStringify(o) == [json |-> o]
JsonParse(s) == s.json

\* a text that is not JSON, and whether JSON.parse accepts a text
NotJson == [garbage |-> TRUE]
JsonParses(s) == "json" \in DOMAIN s

-----------------------------------------------------------------------------
(* Encryption (lib/core/security/encryption, an opaque service) *)

\* a nullable text column holding a ciphertext
SqlNull == [null |-> TRUE]

\* encryptSecret(plaintext).encrypted: a non-empty ciphertext of the plaintext
encryptSecret(plaintext) == [null |-> FALSE, ok |-> TRUE, pt |-> plaintext]

\* decryptSecret(ciphertext): throws on a ciphertext it cannot decrypt
decryptSecret(ciphertext) == [threw |-> ~ciphertext.ok, decrypted |-> ciphertext.pt]

\* truthiness of a nullable ciphertext column: a ciphertext is never ""
TruthyColumn(c) == ~c.null

-----------------------------------------------------------------------------
(* Table custom_llm_endpoints *)

Columns == {"id", "workspaceId", "name", "baseUrl", "apiType",
            "encryptedApiKey", "encryptedHeaders", "createdBy",
            "createdAt", "updatedAt"}

\* new Date(): the time now, read from a clock that ticks each time an id is
\* handed out
Date == nextId

\* CREATE UNIQUE INDEX custom_llm_endpoint_workspace_name (workspace_id, name),
\* without the index (used to test the claims)
UniqueIndexOk_none(rows, row) == TRUE

\* the unique index admits row beside the other rows
UniqueIndexOk(rows, row) ==
    \A r \in rows : ~(r.workspaceId = row.workspaceId /\ r.name = row.name)

\* "id" text PRIMARY KEY
PrimaryKeyOk(rows, row) == \A r \in rows : r.id # row.id

\* db.insert(...).values(row).returning(): throws on a constraint violation
DbInsert(rows, row) ==
    IF PrimaryKeyOk(rows, row) /\ UniqueIndexOk(rows, row)
    THEN [threw |-> FALSE, rows |-> rows \cup {row}, returning |-> {row}]
    ELSE [threw |-> TRUE, rows |-> rows, returning |-> {}]

\* SET: the columns named in updates take their new values
ApplyUpdates(row, updates) ==
    [c \in DOMAIN row |-> IF c \in DOMAIN updates THEN updates[c] ELSE row[c]]

\* db.update(...).set(updates).where(id = endpointId).returning()
DbUpdate(rows, endpointId, updates) ==
    LET hit == {r \in rows : r.id = endpointId}
        rest == rows \ hit
        new == {ApplyUpdates(r, updates) : r \in hit}
    IN IF \A n \in new : UniqueIndexOk(rest, n)
       THEN [threw |-> FALSE, rows |-> rest \cup new, returning |-> new]
       ELSE [threw |-> TRUE, rows |-> rows, returning |-> {}]

\* db.delete(...).where(id = endpointId)
DbDelete(rows, endpointId) == {r \in rows : r.id # endpointId}

\* a select by name that leaves the workspace out of its where clause (used
\* to test the claims)
SelectByName_ignoresWorkspace(rows, workspaceId, name) ==
    {r \in rows : r.name = name}

\* select ... where workspace_id = ws and name = n limit 1; the unique index
\* leaves at most one match
SelectByName(rows, workspaceId, name) ==
    {r \in rows : r.workspaceId = workspaceId /\ r.name = name}

SelectById(rows, endpointId) == {r \in rows : r.id = endpointId}

First(result) == CHOOSE r \in result : TRUE

-----------------------------------------------------------------------------
(* The credential store: lib/custom-llm/endpoints.ts *)

\* the CustomLlmEndpoint view of a row: no credentials, only hasApiKey and headerNames
\* a view that spreads the whole row, ciphertext columns included (used to
\* test the claims)
EndpointView_spreadsRow(row, hasApiKey, headerNames) ==
    [f \in DOMAIN row \cup {"hasApiKey", "headerNames"} |->
        CASE f = "hasApiKey" -> hasApiKey
          [] f = "headerNames" -> headerNames
          [] OTHER -> row[f]]

EndpointView(row, hasApiKey, headerNames) ==
    [id |-> row.id,
     workspaceId |-> row.workspaceId,
     name |-> row.name,
     baseUrl |-> row.baseUrl,
     apiType |-> IF row.apiType = "" THEN "openai" ELSE row.apiType,
     hasApiKey |-> hasApiKey,
     headerNames |-> headerNames,
     createdBy |-> row.createdBy,
     createdAt |-> row.createdAt, updatedAt |-> row.updatedAt]

\* the header names of an encrypted header blob; [] when it cannot be decrypted
DecryptHeaderNames(encryptedHeaders) ==
    LET d == decryptSecret(encryptedHeaders)
    IN IF d.threw \/ ~JsonParses(d.decrypted)
       THEN {} ELSE ObjectKeys(JsonParse(d.decrypted))

\* a listing in which one undecryptable header blob empties the header names
\* of every endpoint of the workspace (used to test the claims)
getCustomEndpoints_failTogether(rows, workspaceId) ==
    LET mine == {r \in rows : r.workspaceId = workspaceId}
        failed == \E r \in mine :
                    /\ ~r.encryptedHeaders.null
                    /\ (~r.encryptedHeaders.ok \/ "json" \notin DOMAIN r.encryptedHeaders.pt)
    IN {[id |-> endpoint.id, workspaceId |-> endpoint.workspaceId,
         name |-> endpoint.name, baseUrl |-> endpoint.baseUrl,
         apiType |-> IF endpoint.apiType = "" THEN "openai" ELSE endpoint.apiType,
         hasApiKey |-> ~endpoint.encryptedApiKey.null,
         headerNames |-> IF endpoint.encryptedHeaders.null \/ failed THEN {}
                         ELSE DOMAIN endpoint.encryptedHeaders.pt.json,
         createdBy |-> endpoint.createdBy,
         createdAt |-> endpoint.createdAt, updatedAt |-> endpoint.updatedAt] : endpoint \in mine}

getCustomEndpoints(rows, workspaceId) ==
    {EndpointView(endpoint,
                  TruthyColumn(endpoint.encryptedApiKey),
                  IF TruthyColumn(endpoint.encryptedHeaders)
                  THEN DecryptHeaderNames(endpoint.encryptedHeaders)
                  ELSE {})
        : endpoint \in {r \in rows : r.workspaceId = workspaceId}}

\* credentials that are both dropped when either secret fails to decrypt
\* (used to test the claims)
WithCredentials_allOrNothing(endpoint) ==
    LET k == endpoint.encryptedApiKey
        h == endpoint.encryptedHeaders
        failed == \/ ~k.null /\ ~k.ok
                  \/ ~h.null /\ (~h.ok \/ "json" \notin DOMAIN h.pt)
    IN [id |-> endpoint.id, workspaceId |-> endpoint.workspaceId,
        name |-> endpoint.name, baseUrl |-> endpoint.baseUrl,
        apiType |-> endpoint.apiType,
        apiKey |-> IF k.null \/ failed THEN [k |-> "null"] ELSE [k |-> "val", v |-> k.pt],
        headers |-> IF h.null \/ failed THEN [k |-> "null"]
                    ELSE [k |-> "val", v |-> h.pt.json],
        createdBy |-> endpoint.createdBy,
        createdAt |-> endpoint.createdAt, updatedAt |-> endpoint.updatedAt]

\* the CustomLlmEndpointWithCredentials of a row: each secret decrypted on its
\* own, null when absent or when its decryption throws
WithCredentials(endpoint) ==
    LET k == decryptSecret(endpoint.encryptedApiKey)
        h == decryptSecret(endpoint.encryptedHeaders)
    IN [id |-> endpoint.id,
        workspaceId |-> endpoint.workspaceId,
        name |-> endpoint.name,
        baseUrl |-> endpoint.baseUrl,
        apiType |-> IF endpoint.apiType = "" THEN "openai" ELSE endpoint.apiType,
        apiKey |-> IF TruthyColumn(endpoint.encryptedApiKey) /\ ~k.threw
                   THEN Val(k.decrypted) ELSE Null,
        headers |-> IF /\ TruthyColumn(endpoint.encryptedHeaders)
                       /\ ~h.threw
                       /\ JsonParses(h.decrypted)
                    THEN Val(JsonParse(h.decrypted)) ELSE Null,
        createdBy |-> endpoint.createdBy,
        createdAt |-> endpoint.createdAt, updatedAt |-> endpoint.updatedAt]

\* a lookup by name alone, in whatever workspace (used to test the claims)
getCustomEndpointByName_anyWorkspace(rows, workspaceId, endpointName) ==
    LET result == {r \in rows : r.name = endpointName}
    IN IF result = {} THEN Null
       ELSE Val(WithCredentials(CHOOSE r \in result : TRUE))

getCustomEndpointByName(rows, workspaceId, endpointName) ==
    LET result == SelectByName(rows, workspaceId, endpointName)
    IN IF result = {} THEN Null ELSE Val(WithCredentials(First(result)))

getCustomEndpointById(rows, endpointId) ==
    LET result == SelectById(rows, endpointId)
    IN IF result = {} THEN Null ELSE Val(WithCredentials(First(result)))

\* a record handed to the logger: logger.info / logger.error(message, data)
LogRecord(level, message, data) == [level |-> level, message |-> message, data |-> data]

\* a create that encrypts whatever key and mapping it is given, the empty ones
\* too (used to test the claims)
createCustomEndpoint_encryptsEmpty(rows, params) ==
    LET encryptedApiKey == IF params.apiKey.k = "val"
                           THEN encryptSecret(params.apiKey.v) ELSE SqlNull
        hasHeaders == params.headers.k = "val"
        encryptedHeaders == IF hasHeaders
                            THEN encryptSecret(JsonStringify(params.headers.v))
                            ELSE SqlNull
        headerNames == IF hasHeaders THEN ObjectKeys(params.headers.v) ELSE {}
        ins == DbInsert(rows,
                 [id |-> params.id,
                  workspaceId |-> params.workspaceId,
                  name |-> params.name,
                  baseUrl |-> params.baseUrl,
                  apiType |-> IF TruthyString(params.apiType)
                              THEN params.apiType.v ELSE "openai",
                  encryptedApiKey |-> encryptedApiKey,
                  encryptedHeaders |-> encryptedHeaders,
                  createdBy |-> params.createdBy,
                  createdAt |-> Date,
                  updatedAt |-> Date])
    IN IF ins.threw
       THEN [threw |-> TRUE, rows |-> rows,
             log |-> LogRecord("error", "Failed to create custom endpoint",
                               [params |-> params, error |-> "db"])]
       ELSE [threw |-> FALSE, rows |-> ins.rows, decryptCalls |-> 0,
             log |-> LogRecord("info", "Created custom LLM endpoint",
                       [endpointId |-> First(ins.returning).id,
                        name |-> First(ins.returning).name,
                        workspaceId |-> First(ins.returning).workspaceId,
                        apiType |-> First(ins.returning).apiType,
                        headerCount |-> Cardinality(headerNames)]),
             value |-> EndpointView(First(ins.returning),
                                    TruthyColumn(encryptedApiKey), headerNames)]

\* the outcome of createCustomEndpoint(params) on the table: the rows after
\* it, whether it threw, the value it returned, and how often it called
\* decryptSecret
createCustomEndpoint(rows, params) ==
    LET encryptedApiKey == IF TruthyString(params.apiKey)
                           THEN encryptSecret(params.apiKey.v) ELSE SqlNull
        hasHeaders == IsVal(params.headers) /\ ObjectKeys(params.headers.v) # {}
        encryptedHeaders == IF hasHeaders
                            THEN encryptSecret(JsonStringify(params.headers.v))
                            ELSE SqlNull
        headerNames == IF hasHeaders THEN ObjectKeys(params.headers.v) ELSE {}
        ins == DbInsert(rows,
                 [id |-> params.id,
                  workspaceId |-> params.workspaceId,
                  name |-> params.name,
                  baseUrl |-> params.baseUrl,
                  apiType |-> IF TruthyString(params.apiType)
                              THEN params.apiType.v ELSE "openai",
                  encryptedApiKey |-> encryptedApiKey,
                  encryptedHeaders |-> encryptedHeaders,
                  createdBy |-> params.createdBy,
                  createdAt |-> Date,
                  updatedAt |-> Date])
    IN IF ins.threw
       THEN [threw |-> TRUE, rows |-> rows,
             log |-> LogRecord("error", "Failed to create custom endpoint",
                               [params |-> params, error |-> "db"])]
       ELSE [threw |-> FALSE, rows |-> ins.rows, decryptCalls |-> 0,
             log |-> LogRecord("info", "Created custom LLM endpoint",
                       [endpointId |-> First(ins.returning).id,
                        name |-> First(ins.returning).name,
                        workspaceId |-> First(ins.returning).workspaceId,
                        apiType |-> First(ins.returning).apiType,
                        headerCount |-> Cardinality(headerNames)]),
             value |-> EndpointView(First(ins.returning),
                                    TruthyColumn(encryptedApiKey), headerNames)]

\* the columns set when a null credential is treated as an omitted one (used
\* to test the claims)
UpdatedColumns_nullOmitted(params) ==
    {c \in {"updatedAt", "name", "baseUrl", "encryptedApiKey", "encryptedHeaders"} :
        \/ c = "updatedAt"
        \/ c = "name" /\ params.name # Undefined
        \/ c = "baseUrl" /\ params.baseUrl # Undefined
        \/ c = "encryptedApiKey" /\ params.apiKey.k = "val"
        \/ c = "encryptedHeaders" /\ params.headers.k = "val"}

\* the columns set by an update that leaves updated_at alone (used to test
\* the claims)
UpdatedColumns_staleUpdatedAt(params) ==
    {c \in {"name", "baseUrl", "encryptedApiKey", "encryptedHeaders"} :
        \/ c = "name" /\ params.name # [k |-> "undefined"]
        \/ c = "baseUrl" /\ params.baseUrl # [k |-> "undefined"]
        \/ c = "encryptedApiKey" /\ params.apiKey # [k |-> "undefined"]
        \/ c = "encryptedHeaders" /\ params.headers # [k |-> "undefined"]}

\* the columns updateCustomEndpoint sets: those present in params
UpdatedColumns(params) ==
    {c \in {"updatedAt", "name", "baseUrl", "encryptedApiKey", "encryptedHeaders"} :
        \/ c = "updatedAt"
        \/ c = "name" /\ params.name # Undefined
        \/ c = "baseUrl" /\ params.baseUrl # Undefined
        \/ c = "encryptedApiKey" /\ params.apiKey # Undefined
        \/ c = "encryptedHeaders" /\ params.headers # Undefined}

\* the outcome of updateCustomEndpoint(endpointId, params) on the table
updateCustomEndpoint(rows, endpointId, params) ==
    LET updates == [c \in UpdatedColumns(params) |->
            CASE c = "updatedAt" -> Date
              [] c = "name" -> params.name.v
              [] c = "baseUrl" -> params.baseUrl.v
              [] c = "encryptedApiKey" ->
                    IF params.apiKey = Null THEN SqlNull
                    ELSE encryptSecret(params.apiKey.v)
              [] c = "encryptedHeaders" ->
                    IF IsVal(params.headers) /\ ObjectKeys(params.headers.v) # {}
                    THEN encryptSecret(JsonStringify(params.headers.v))
                    ELSE SqlNull]
        \* headerNames after the headers block: undefined when headers is omitted
        headerNames == IF params.headers = Undefined THEN Undefined
                       ELSE IF IsVal(params.headers)
                       THEN Val(ObjectKeys(params.headers.v))
                       ELSE Val({})
        upd == DbUpdate(rows, endpointId, updates)
        failed(error) ==
            LogRecord("error", "Failed to update custom endpoint",
                      [endpointId |-> endpointId, params |-> params, error |-> error])
    IN IF upd.threw THEN [threw |-> TRUE, error |-> "db", rows |-> rows,
                          log |-> failed("db")]
       ELSE IF upd.returning = {}
       THEN [threw |-> TRUE, error |-> "Endpoint with ID not found", rows |-> upd.rows,
             log |-> failed("Endpoint with ID not found")]
       ELSE LET updatedEndpoint == First(upd.returning)
                names == IF headerNames = Undefined
                         THEN IF TruthyColumn(updatedEndpoint.encryptedHeaders)
                              THEN DecryptHeaderNames(updatedEndpoint.encryptedHeaders)
                              ELSE {}
                         ELSE headerNames.v
            IN [threw |-> FALSE, rows |-> upd.rows,
                log |-> LogRecord("info", "Updated custom LLM endpoint",
                          [endpointId |-> updatedEndpoint.id,
                           name |-> updatedEndpoint.name,
                           headerCount |-> Cardinality(names)]),
                value |-> EndpointView(updatedEndpoint,
                            TruthyColumn(updatedEndpoint.encryptedApiKey), names)]

\* a delete that leaves the row where it is (used to test the claims)
deleteCustomEndpoint_keepsRow(rows, endpointId) ==
    [threw |-> FALSE, rows |-> rows]

\* a delete that rejects an id that is not in the table (used to test the
\* claims)
deleteCustomEndpoint_strict(rows, endpointId) ==
    [threw |-> \A r \in rows : r.id # endpointId,
     rows |-> {r \in rows : r.id # endpointId}]

deleteCustomEndpoint(rows, endpointId) ==
    [threw |-> FALSE, rows |-> DbDelete(rows, endpointId)]

\* isEndpointNameAvailable without the self-exclusion (used to test the claims)
isEndpointNameAvailable_noExclude(rows, workspaceId, name, excludeId) ==
    SelectByName(rows, workspaceId, name) = {}

isEndpointNameAvailable(rows, workspaceId, name, excludeId) ==
    LET result == SelectByName(rows, workspaceId, name)
    IN IF result = {} THEN TRUE
       ELSE IF IsVal(excludeId) /\ First(result).id = excludeId.v THEN TRUE
       ELSE FALSE

-----------------------------------------------------------------------------
(* Direct calls of the store functions *)

\* the endpoint ids a caller can name: those handed out so far, and 0, an id
\* no endpoint ever had
KnownIds == 0..nextId

NoChange == [name |-> Undefined, baseUrl |-> Undefined,
             apiKey |-> Undefined, headers |-> Undefined]

\* CreateCustomEndpointParams, less id and workspaceId
StoreCreateParams ==
    {[name |-> NameA, baseUrl |-> "https://h1", apiType |-> Undefined,
      apiKey |-> Undefined, headers |-> Undefined, createdBy |-> "alice"],
     [name |-> NameA, baseUrl |-> "https://h2", apiType |-> Val("google"),
      apiKey |-> Val("k1"), headers |-> Val(Headers1), createdBy |-> "alice"],
     [name |-> NameB, baseUrl |-> "https://h1", apiType |-> Val("anthropic"),
      apiKey |-> Val(""), headers |-> Val(EmptyHeaders), createdBy |-> "bob"],
     [name |-> NameB, baseUrl |-> "https://h2", apiType |-> Val("openai"),
      apiKey |-> Val("k2"), headers |-> Val(Headers2), createdBy |-> "bob"]}

\* UpdateCustomEndpointParams
StoreUpdateParams ==
    {NoChange,
     [NoChange EXCEPT !.name = Val(NameB)],
     [NoChange EXCEPT !.name = Val(NameA), !.baseUrl = Val("https://h2")],
     [NoChange EXCEPT !.apiKey = Null],
     [NoChange EXCEPT !.headers = Null],
     [NoChange EXCEPT !.apiKey = Val("k2"), !.headers = Val(Headers2)],
     [NoChange EXCEPT !.apiKey = Val("")],
     [NoChange EXCEPT !.headers = Val(EmptyHeaders)]}

NoReturn == [fn |-> "none"]

Called ==
    /\ ops < MaxOps
    /\ ops' = ops + 1

\* a call of createCustomEndpoint with params among paramsSet
Create(paramsSet) ==
    \E workspaceId \in Workspaces, p \in paramsSet :
        LET params == [id |-> nextId + 1, workspaceId |-> workspaceId,
                       name |-> p.name, baseUrl |-> p.baseUrl, apiType |-> p.apiType,
                       apiKey |-> p.apiKey, headers |-> p.headers,
                       createdBy |-> p.createdBy]
            out == createCustomEndpoint(db, params)
        IN /\ Called
           /\ nextId' = nextId + 1
           /\ db' = out.rows
           /\ ret' = [fn |-> "create", params |-> params, threw |-> out.threw,
                      value |-> IF out.threw THEN {} ELSE {out.value},
                      decryptCalls |-> IF out.threw THEN 0 ELSE out.decryptCalls,
                      log |-> out.log,
                      availableBefore |->
                          [w \in Workspaces |->
                              isEndpointNameAvailable(db, w, p.name, Undefined)]]

StoreCreate == Create(StoreCreateParams)

\* a call of updateCustomEndpoint with params among paramsSet
Update(paramsSet) ==
    \E endpointId \in KnownIds, params \in paramsSet :
        LET out == updateCustomEndpoint(db, endpointId, params)
        IN /\ Called
           /\ db' = out.rows
           /\ ret' = [fn |-> "update", endpointId |-> endpointId, params |-> params,
                      threw |-> out.threw,
                      value |-> IF out.threw THEN {} ELSE {out.value},
                      log |-> out.log,
                      before |-> getCustomEndpointById(db, endpointId)]
           /\ UNCHANGED nextId

StoreUpdate == Update(StoreUpdateParams)

StoreDelete ==
    \E endpointId \in KnownIds :
        LET out == deleteCustomEndpoint(db, endpointId)
        IN /\ Called
           /\ db' = out.rows
           /\ ret' = [fn |-> "delete", endpointId |-> endpointId, threw |-> out.threw,
                      before |-> db]
           /\ UNCHANGED nextId

StoreList ==
    \E workspaceId \in Workspaces :
        /\ Called
        /\ ret' = [fn |-> "list", workspaceId |-> workspaceId, threw |-> FALSE,
                   value |-> getCustomEndpoints(db, workspaceId)]
        /\ UNCHANGED tableVars

StoreGetByName ==
    \E workspaceId \in Workspaces, endpointName \in Names :
        /\ Called
        /\ ret' = [fn |-> "getByName", workspaceId |-> workspaceId,
                   endpointName |-> endpointName, threw |-> FALSE,
                   value |-> getCustomEndpointByName(db, workspaceId, endpointName)]
        /\ UNCHANGED tableVars

StoreGetById ==
    \E endpointId \in KnownIds :
        /\ Called
        /\ ret' = [fn |-> "getById", endpointId |-> endpointId, threw |-> FALSE,
                   value |-> getCustomEndpointById(db, endpointId)]
        /\ UNCHANGED tableVars

StoreIsNameAvailable ==
    \E workspaceId \in Workspaces, name \in Names,
       excludeId \in {Undefined} \cup {Val(i) : i \in KnownIds \ {0}} :
        /\ Called
        /\ ret' = [fn |-> "isNameAvailable", workspaceId |-> workspaceId,
                   name |-> name, excludeId |-> excludeId, threw |-> FALSE,
                   value |-> isEndpointNameAvailable(db, workspaceId, name, excludeId)]
        /\ UNCHANGED tableVars

\* the environment of the store: the ciphertext of a column can no longer be
\* decrypted (the encryption key changed, the text was damaged), or a header
\* blob no longer decrypts to JSON
Damages == {"apiKey", "headers", "headersNotJson"}

Damaged(row, damage) ==
    CASE damage = "apiKey" -> [row EXCEPT !.encryptedApiKey.ok = FALSE]
      [] damage = "headers" -> [row EXCEPT !.encryptedHeaders.ok = FALSE]
      [] damage = "headersNotJson" -> [row EXCEPT !.encryptedHeaders.pt = NotJson]

\* a stored column of some row suffers one of damages
Lose(damages) ==
    \E row \in db, damage \in damages :
        /\ Called
        /\ TruthyColumn(IF damage = "apiKey" THEN row.encryptedApiKey
                        ELSE row.encryptedHeaders)
        /\ Damaged(row, damage) # row
        /\ db' = (db \ {row}) \cup {Damaged(row, damage)}
        /\ ret' = [fn |-> "damage", endpointId |-> row.id, column |-> damage,
                   threw |-> FALSE]
        /\ UNCHANGED nextId

CiphertextLost == Lose(Damages)

-----------------------------------------------------------------------------
(* Model-identifier parsers *)

\* the same parser splitting on the last "/" (used to test the claims)
parseCustomGoogleModel_lastSlash(model) ==
    LET withoutPrefix == ReplacePrefix(model, PrefixGoogle)
        idx == {i \in 1..Len(withoutPrefix) : withoutPrefix[i] = Slash}
        slashIndex == IF idx = {} THEN -1 ELSE (CHOOSE i \in idx : \A j \in idx : j <= i) - 1
    IN IF slashIndex = -1
       THEN [endpointName |-> <<>>, modelName |-> withoutPrefix]
       ELSE [endpointName |-> Slice(withoutPrefix, 0, slashIndex),
             modelName |-> SliceFrom(withoutPrefix, slashIndex + 1)]

parseCustomGoogleModel(model) ==
    LET withoutPrefix == ReplacePrefix(model, PrefixGoogle)
        slashIndex == IndexOf(withoutPrefix, Slash)
    IN IF slashIndex = -1
       THEN [endpointName |-> <<>>, modelName |-> withoutPrefix]
       ELSE [endpointName |-> Slice(withoutPrefix, 0, slashIndex),
             modelName |-> SliceFrom(withoutPrefix, slashIndex + 1)]

parseCustomAnthropicModel(model) ==
    LET withoutPrefix == ReplacePrefix(model, PrefixAnthropic)
        slashIndex == IndexOf(withoutPrefix, Slash)
    IN IF slashIndex = -1
       THEN [endpointName |-> <<>>, modelName |-> withoutPrefix]
       ELSE [endpointName |-> Slice(withoutPrefix, 0, slashIndex),
             modelName |-> SliceFrom(withoutPrefix, slashIndex + 1)]

\* providers/custom-openai/utils.ts is not among the sources; modelled from
\* section 4.1 of the specification
parseCustomOpenAIModel(model) ==
    LET withoutPrefix == ReplacePrefix(model, PrefixOpenAI)
        slashIndex == IndexOf(withoutPrefix, Slash)
    IN IF slashIndex = -1
       THEN [endpointName |-> <<>>, modelName |-> withoutPrefix]
       ELSE [endpointName |-> Slice(withoutPrefix, 0, slashIndex),
             modelName |-> SliceFrom(withoutPrefix, slashIndex + 1)]

-----------------------------------------------------------------------------
(* The HTTP routes: app/api/workspaces/[id]/custom-llm-endpoints *)

NameMaxLen == 50

\* z.string().min(1).max(50).regex(/^[a-zA-Z0-9_-]+$/)
ValidName(name) ==
    /\ Len(name) >= 1
    /\ Len(name) <= NameMaxLen
    /\ Range(name) \subseteq NameChars

Urls == {"https://h1", "https://h2"}

\* z.string().url()
ValidUrl(url) == url \in Urls

ApiTypes == {"openai", "anthropic", "google"}

\* CreateEndpointSchema.parse(body): the parsed body, or a ZodError
CreateEndpointSchema(body) ==
    IF ValidName(body.name) /\ ValidUrl(body.baseUrl)
    THEN [threw |-> FALSE,
          value |-> [body EXCEPT !.apiType = IF body.apiType = Undefined
                                             THEN Val("openai") ELSE body.apiType]]
    ELSE [threw |-> TRUE]

\* UpdateEndpointSchema.parse(body)
UpdateEndpointSchema(body) ==
    IF /\ IsVal(body.name) => ValidName(body.name.v)
       /\ IsVal(body.baseUrl) => ValidUrl(body.baseUrl.v)
    THEN [threw |-> FALSE, value |-> body]
    ELSE [threw |-> TRUE]

\* getSession(): a caller is a signed-in user, or Undefined without a session
Callers == {Undefined} \cup {Val(u) : u \in Users}

\* getUserEntityPermissions(userId, 'workspace', workspaceId): the membership
\* table of the deployment, fixed here
getUserEntityPermissions(userId, workspaceId) ==
    CASE userId = "alice" /\ workspaceId = "w1" -> Val("admin")
      [] userId = "alice" /\ workspaceId = "w2" -> Val("read")
      [] userId = "bob" /\ workspaceId = "w2" -> Val("admin")
      [] OTHER -> Null

\* permission !== 'admin', with any permission accepted (used to test the claims)
NotAdmin_anyPermission(permission) == permission = Null

NotAdmin(permission) == permission # Val("admin")

\* the JSON bodies sent to POST
CreateBodies ==
    {[name |-> NameA, baseUrl |-> "https://h1", apiType |-> Undefined,
      apiKey |-> Undefined, headers |-> Undefined],
     [name |-> NameA, baseUrl |-> "https://h2", apiType |-> Val("google"),
      apiKey |-> Val("k1"), headers |-> Val(Headers1)],
     [name |-> NameB, baseUrl |-> "https://h1", apiType |-> Val("anthropic"),
      apiKey |-> Val(""), headers |-> Val(EmptyHeaders)],
     [name |-> <<"a", Slash>>, baseUrl |-> "https://h1", apiType |-> Undefined,
      apiKey |-> Val("k1"), headers |-> Undefined],
     [name |-> NameB, baseUrl |-> "h1", apiType |-> Undefined,
      apiKey |-> Undefined, headers |-> Undefined]}

\* the JSON bodies sent to PATCH
UpdateBodies ==
    {NoChange,
     [NoChange EXCEPT !.name = Val(NameB)],
     [NoChange EXCEPT !.name = Val(NameA), !.baseUrl = Val("https://h2")],
     [NoChange EXCEPT !.apiKey = Null, !.headers = Val(Headers2)],
     [NoChange EXCEPT !.name = Val(<<>>)]}

Slots == 1..MaxInFlight

Idle == [pc |-> "idle"]
NoResponse == [status |-> 0]

\* the store call a step made, for the record
NoCall == [fn |-> "none"]

\* NextResponse.json(...): the response, with the request it answers, the
\* store call the step made and whether the step changed the table
Response(request, status, error, payload, call, changed) ==
    [status |-> status, error |-> error, payload |-> payload,
     request |-> request, call |-> call, changed |-> changed]

ErrUnauthorized == [msg |-> "Unauthorized"]
ErrForbidden == [msg |-> "Only workspace admins can manage custom LLM endpoints"]
ErrNotFound == [msg |-> "Endpoint not found"]
ErrValidation == [msg |-> "validation"]
ErrConflict(name) == [msg |-> "An endpoint with the name already exists in this workspace",
                      name |-> name]
ErrThrown(message) == [msg |-> message]
NoError == [msg |-> ""]

\* the handler answers without having written
Respond(slot, request, status, error, payload) ==
    /\ resp' = Response(request, status, error, payload, NoCall, FALSE)
    /\ reqs' = [reqs EXCEPT ![slot] = Idle]
    /\ UNCHANGED <<db, nextId>>

\* the handler goes on to its next await
Continue(slot, frame) ==
    /\ resp' = NoResponse
    /\ reqs' = [reqs EXCEPT ![slot] = frame]
    /\ UNCHANGED <<db, nextId>>

\* a request is received by the first idle handler slot
Receive(slot) ==
    /\ reqs[slot] = Idle
    /\ \A t \in Slots : t < slot => reqs[t] # Idle
    /\ started < MaxRequests
    /\ started' = started + 1

\* the request of a caller on a workspace, before the handler reads its
\* endpoint id and body
Request(kind, caller, workspaceId) ==
    [kind |-> kind, caller |-> caller, workspaceId |-> workspaceId]

\* the request with the endpoint id of its URL
WithId(request, endpointId) ==
    [kind |-> request.kind, caller |-> request.caller,
     workspaceId |-> request.workspaceId, endpointId |-> endpointId]

\* POST up to the await of createCustomEndpoint: session, permission, body,
\* name availability
PostStart(slot) ==
    \E caller \in Callers, workspaceId \in Workspaces :
        LET request == Request("POST", caller, workspaceId)
        IN /\ Receive(slot)
           /\ IF caller = Undefined
              THEN Respond(slot, request, 401, ErrUnauthorized, {})
              ELSE IF NotAdmin(getUserEntityPermissions(caller.v, workspaceId))
              THEN Respond(slot, request, 403, ErrForbidden, {})
              ELSE \E body \in CreateBodies :
                LET parsed == CreateEndpointSchema(body)
                IN IF parsed.threw
                   THEN Respond(slot, request, 400, ErrValidation, {})
                   ELSE IF ~isEndpointNameAvailable(db, workspaceId,
                                                    parsed.value.name, Undefined)
                   THEN Respond(slot, request, 409, ErrConflict(parsed.value.name), {})
                   ELSE Continue(slot, [pc |-> "insert", request |-> request,
                                        parsed |-> parsed.value])

\* POST from createCustomEndpoint on: the insert and the response
PostInsert(slot) ==
    /\ reqs[slot].pc = "insert"
    /\ LET f == reqs[slot]
           out == createCustomEndpoint(db,
                    [id |-> nextId + 1,
                     workspaceId |-> f.request.workspaceId,
                     name |-> f.parsed.name,
                     baseUrl |-> f.parsed.baseUrl,
                     apiType |-> f.parsed.apiType,
                     apiKey |-> f.parsed.apiKey,
                     headers |-> f.parsed.headers,
                     createdBy |-> f.request.caller.v])
           call == [fn |-> "create", parsed |-> f.parsed,
                    held |-> SelectByName(db, f.request.workspaceId, f.parsed.name) # {}]
       IN /\ nextId' = nextId + 1
          /\ db' = out.rows
          /\ resp' = IF out.threw
                     THEN Response(f.request, 500, ErrThrown("db"), {}, call, FALSE)
                     ELSE Response(f.request, 200, NoError, {out.value}, call, TRUE)
          /\ reqs' = [reqs EXCEPT ![slot] = Idle]
          /\ UNCHANGED started

\* a tenancy check that lets every endpoint through (used to test the claims)
OtherWorkspace_never(endpoint, workspaceId) == FALSE

\* the endpoint found by id belongs to another workspace than the one in the URL
OtherWorkspace(endpoint, workspaceId) == endpoint.workspaceId # workspaceId

\* the GET of one endpoint
GetDetail(slot) ==
    \E caller \in Callers, workspaceId \in Workspaces :
        LET request == Request("GET", caller, workspaceId)
        IN /\ Receive(slot)
           /\ IF caller = Undefined
              THEN Respond(slot, request, 401, ErrUnauthorized, {})
              ELSE IF getUserEntityPermissions(caller.v, workspaceId) = Null
              THEN Respond(slot, request, 401, ErrUnauthorized, {})
              ELSE \E endpointId \in KnownIds :
                LET endpoint == getCustomEndpointById(db, endpointId)
                    req == WithId(request, endpointId)
                IN IF endpoint = Null
                   THEN Respond(slot, req, 404, ErrNotFound, {})
                   ELSE IF OtherWorkspace(endpoint.v, workspaceId)
                   THEN Respond(slot, req, 404, ErrNotFound, {})
                   ELSE Respond(slot, req, 200, NoError,
                          {EndpointView(endpoint.v,
                                        TruthyString(endpoint.v.apiKey),
                                        IF IsVal(endpoint.v.headers)
                                        THEN ObjectKeys(endpoint.v.headers.v) ELSE {})})

\* the GET of the endpoints of a workspace
GetList(slot) ==
    \E caller \in Callers, workspaceId \in Workspaces :
        LET request == Request("LIST", caller, workspaceId)
        IN /\ Receive(slot)
           /\ IF caller = Undefined
              THEN Respond(slot, request, 401, ErrUnauthorized, {})
              ELSE IF getUserEntityPermissions(caller.v, workspaceId) = Null
              THEN Respond(slot, request, 401, ErrUnauthorized, {})
              ELSE Respond(slot, request, 200, NoError,
                           getCustomEndpoints(db, workspaceId))

\* PATCH up to the first await after getCustomEndpointById: session,
\* permission, tenancy, body
PatchStart(slot) ==
    \E caller \in Callers, workspaceId \in Workspaces :
        LET request == Request("PATCH", caller, workspaceId)
        IN /\ Receive(slot)
           /\ IF caller = Undefined
              THEN Respond(slot, request, 401, ErrUnauthorized, {})
              ELSE IF NotAdmin(getUserEntityPermissions(caller.v, workspaceId))
              THEN Respond(slot, request, 403, ErrForbidden, {})
              ELSE \E endpointId \in KnownIds :
                LET existingEndpoint == getCustomEndpointById(db, endpointId)
                    req == WithId(request, endpointId)
                IN IF existingEndpoint = Null
                   THEN Respond(slot, req, 404, ErrNotFound, {})
                   ELSE IF OtherWorkspace(existingEndpoint.v, workspaceId)
                   THEN Respond(slot, req, 404, ErrNotFound, {})
                   ELSE \E body \in UpdateBodies :
                     LET parsed == UpdateEndpointSchema(body)
                     IN IF parsed.threw
                        THEN Respond(slot, req, 400, ErrValidation, {})
                        ELSE IF /\ IsVal(parsed.value.name)
                                /\ parsed.value.name.v # <<>>
                                /\ parsed.value.name.v # existingEndpoint.v.name
                        THEN Continue(slot, [pc |-> "check", request |-> req,
                                             parsed |-> parsed.value])
                        ELSE Continue(slot, [pc |-> "update", request |-> req,
                                             parsed |-> parsed.value])

\* PATCH, renaming: isEndpointNameAvailable
PatchCheck(slot) ==
    /\ reqs[slot].pc = "check"
    /\ LET f == reqs[slot]
       IN IF ~isEndpointNameAvailable(db, f.request.workspaceId, f.parsed.name.v,
                                      Val(f.request.endpointId))
          THEN /\ Respond(slot, f.request, 409, ErrConflict(f.parsed.name.v), {})
               /\ UNCHANGED started
          ELSE /\ Continue(slot, [f EXCEPT !.pc = "update"])
               /\ UNCHANGED started

\* PATCH from updateCustomEndpoint on: the update and the response
PatchUpdate(slot) ==
    /\ reqs[slot].pc = "update"
    /\ LET f == reqs[slot]
           out == updateCustomEndpoint(db, f.request.endpointId, f.parsed)
           call == [fn |-> "update", parsed |-> f.parsed,
                    before |-> getCustomEndpointById(db, f.request.endpointId),
                    held |-> /\ IsVal(f.parsed.name)
                             /\ \E r \in SelectByName(db, f.request.workspaceId,
                                                       f.parsed.name.v) :
                                    r.id # f.request.endpointId]
       IN /\ db' = out.rows
          /\ resp' = IF out.threw
                     THEN Response(f.request, 500, ErrThrown(out.error), {}, call, FALSE)
                     ELSE Response(f.request, 200, NoError, {out.value}, call, TRUE)
          /\ reqs' = [reqs EXCEPT ![slot] = Idle]
          /\ UNCHANGED <<nextId, started>>

\* DELETE up to the await of deleteCustomEndpoint
DeleteStart(slot) ==
    \E caller \in Callers, workspaceId \in Workspaces :
        LET request == Request("DELETE", caller, workspaceId)
        IN /\ Receive(slot)
           /\ IF caller = Undefined
              THEN Respond(slot, request, 401, ErrUnauthorized, {})
              ELSE IF NotAdmin(getUserEntityPermissions(caller.v, workspaceId))
              THEN Respond(slot, request, 403, ErrForbidden, {})
              ELSE \E endpointId \in KnownIds :
                LET existingEndpoint == getCustomEndpointById(db, endpointId)
                    req == WithId(request, endpointId)
                IN IF existingEndpoint = Null
                   THEN Respond(slot, req, 404, ErrNotFound, {})
                   ELSE IF OtherWorkspace(existingEndpoint.v, workspaceId)
                   THEN Respond(slot, req, 404, ErrNotFound, {})
                   ELSE Continue(slot, [pc |-> "delete", request |-> req])

\* DELETE from deleteCustomEndpoint on
DeleteExec(slot) ==
    /\ reqs[slot].pc = "delete"
    /\ LET f == reqs[slot]
           out == deleteCustomEndpoint(db, f.request.endpointId)
       IN /\ db' = out.rows
          /\ resp' = Response(f.request, 200, NoError, {}, [fn |-> "delete"],
                               out.rows # db)
          /\ reqs' = [reqs EXCEPT ![slot] = Idle]
          /\ UNCHANGED <<nextId, started>>

(* The request dispatcher: providers/index.ts, executeProviderRequest *)

\* model names as the upstream knows them
ModelLocal == <<"a">>
ModelHosted == <<"b">>
ModelReasoning == <<"b", "b">>

ProviderIds == {"custom-openai", "custom-anthropic", "custom-google", "openai",
                "unregistered", "unimplemented"}
CustomProviderIds == {"custom-openai", "custom-anthropic", "custom-google"}

PrefixOf(providerId) ==
    CASE providerId = "custom-openai" -> PrefixOpenAI
      [] providerId = "custom-anthropic" -> PrefixAnthropic
      [] providerId = "custom-google" -> PrefixGoogle

\* providers/registry.ts is not among the sources: every provider id but
\* "unregistered" has an executor, with executeRequest unless "unimplemented"
getProviderExecutor(providerId) ==
    CASE providerId = "unregistered" -> Undefined
      [] providerId = "unimplemented" -> Val([executeRequest |-> FALSE])
      [] OTHER -> Val([executeRequest |-> TRUE])

\* providers/utils.ts is not among the sources: reasoning models reject a
\* temperature
supportsTemperature(model) == model # ModelReasoning

\* providers/utils.ts is not among the sources: usage of the models the
\* platform hosts is billable
shouldBillModelUsage(model) == model = ModelHosted

\* providers/utils.ts is not among the sources: one unit per token
calculateCost(model, promptTokens, completionTokens) ==
    [input |-> promptTokens, output |-> completionTokens,
     total |-> promptTokens + completionTokens]

ZeroCost == [input |-> 0, output |-> 0, total |-> 0]

\* providers/utils.ts is not among the sources: instructions for a schema,
\* none for a string without one
generateStructuredOutputInstructions(responseFormat) ==
    IF responseFormat = "schema" THEN <<"instructions">> ELSE <<>>

\* lib/api-key/byok.ts is not among the sources: the workspace's own key with
\* isBYOK set, or the key the platform or the user supplies, or an error
ByokResults(apiKey) ==
    {[threw |-> FALSE, apiKey |-> Val("byok-key"), isBYOK |-> TRUE],
     [threw |-> FALSE, apiKey |-> Val("platform-key"), isBYOK |-> FALSE],
     [threw |-> TRUE]}
        \cup (IF IsVal(apiKey)
              THEN {[threw |-> FALSE, apiKey |-> apiKey, isBYOK |-> FALSE]}
              ELSE {})

\* a ProviderRequest; a field that is absent is undefined
ProviderRequest(model, workspaceId) ==
    [model |-> model, workspaceId |-> workspaceId, apiKey |-> Undefined,
     temperature |-> Undefined, responseFormat |-> Undefined,
     systemPrompt |-> Undefined, isBYOK |-> Undefined,
     customOpenaiBaseUrl |-> Undefined, customOpenaiEndpointName |-> Undefined,
     customOpenaiHeaders |-> Undefined,
     customAnthropicBaseUrl |-> Undefined, customAnthropicEndpointName |-> Undefined,
     customAnthropicHeaders |-> Undefined,
     customGoogleBaseUrl |-> Undefined, customGoogleEndpointName |-> Undefined,
     customGoogleHeaders |-> Undefined]

\* the text of a prompt is a sequence of pieces; trim() drops the blank ones
\* at both ends
BlankPieces == {"", " ", "\n\n"}

RECURSIVE TrimStart(_)
TrimStart(s) == IF s # <<>> /\ Head(s) \in BlankPieces THEN TrimStart(Tail(s)) ELSE s

RECURSIVE TrimEnd(_)
TrimEnd(s) ==
    IF s # <<>> /\ s[Len(s)] \in BlankPieces
    THEN TrimEnd(SubSeq(s, 1, Len(s) - 1)) ELSE s

Trim(s) == TrimEnd(TrimStart(s))

sanitizeRequest(request) ==
    IF request.model # <<>> /\ ~supportsTemperature(request.model)
    THEN [request EXCEPT !.temperature = Undefined]
    ELSE request

\* the model strings dispatched to a provider
DispatchModels(providerId) ==
    IF providerId \in CustomProviderIds
    THEN {<<PrefixOf(providerId), "a", Slash, "b">>,
          <<PrefixOf(providerId), "b", Slash, "b", Slash, "a">>,
          <<PrefixOf(providerId), "a">>}
    ELSE {ModelHosted, ModelReasoning}

\* the requests dispatched to a provider
DispatchRequests(providerId) ==
    LET first == ProviderRequest(CHOOSE m \in DispatchModels(providerId) :
                                    m[Len(m)] = "b", Val("w1"))
    IN IF providerId \in {"unregistered", "unimplemented"}
       THEN {first}
       ELSE {ProviderRequest(model, Val("w1")) : model \in DispatchModels(providerId)}
            \cup
            {[first EXCEPT !.workspaceId = Val("w2")],
             [first EXCEPT !.workspaceId = Undefined],
             [first EXCEPT !.workspaceId = Undefined,
                           !.customGoogleBaseUrl = Val("https://inbound"),
                           !.customOpenaiBaseUrl = Val("https://inbound"),
                           !.customAnthropicBaseUrl = Val("https://inbound")],
             [first EXCEPT !.apiKey = Val("inbound-key"), !.isBYOK = Val(TRUE),
                           !.temperature = Val("hot")],
             [first EXCEPT !.responseFormat = Val("")],
             [first EXCEPT !.responseFormat = Val(" "),
                           !.systemPrompt = Val(<<"sys">>)],
             [first EXCEPT !.responseFormat = Val("schema"),
                           !.systemPrompt = Val(<<"sys">>)]}

parseCustomModel(providerId, model) ==
    CASE providerId = "custom-openai" -> parseCustomOpenAIModel(model)
      [] providerId = "custom-anthropic" -> parseCustomAnthropicModel(model)
      [] providerId = "custom-google" -> parseCustomGoogleModel(model)

ErrEndpointNotFound(endpointName) ==
    [message |-> "Custom LLM endpoint not found. Please configure it in workspace settings.",
     endpointName |-> endpointName]

\* a merge of the base URL that leaves the request's own apiKey (used to test
\* the claims)
MergeEndpoint_keepsApiKey(providerId, resolvedRequest, endpointConfig) ==
    [resolvedRequest EXCEPT
        !.customOpenaiBaseUrl = [k |-> "val", v |-> endpointConfig.baseUrl],
        !.customAnthropicBaseUrl = [k |-> "val", v |-> endpointConfig.baseUrl],
        !.customGoogleBaseUrl = [k |-> "val", v |-> endpointConfig.baseUrl]]

\* resolvedRequest with the endpoint's connection merged under the family's fields
MergeEndpoint(providerId, resolvedRequest, endpointConfig) ==
    LET headers == IF IsVal(endpointConfig.headers)
                   THEN endpointConfig.headers ELSE Undefined
        apiKey == IF TruthyString(endpointConfig.apiKey)
                  THEN endpointConfig.apiKey ELSE Val("empty")
    IN CASE providerId = "custom-openai" ->
              [resolvedRequest EXCEPT
                  !.customOpenaiBaseUrl = Val(endpointConfig.baseUrl),
                  !.customOpenaiEndpointName = Val(endpointConfig.name),
                  !.customOpenaiHeaders = headers,
                  !.apiKey = apiKey]
         [] providerId = "custom-anthropic" ->
              [resolvedRequest EXCEPT
                  !.customAnthropicBaseUrl = Val(endpointConfig.baseUrl),
                  !.customAnthropicEndpointName = Val(endpointConfig.name),
                  !.customAnthropicHeaders = headers,
                  !.apiKey = apiKey]
         [] providerId = "custom-google" ->
              [resolvedRequest EXCEPT
                  !.customGoogleBaseUrl = Val(endpointConfig.baseUrl),
                  !.customGoogleEndpointName = Val(endpointConfig.name),
                  !.customGoogleHeaders = headers,
                  !.apiKey = apiKey]

\* the structured-output block: the request handed to the executor
WithStructuredOutput(sanitizedRequest) ==
    IF ~TruthyString(sanitizedRequest.responseFormat)
    THEN sanitizedRequest
    ELSE IF sanitizedRequest.responseFormat.v = ""
    THEN [sanitizedRequest EXCEPT !.responseFormat = Undefined]
    ELSE LET structuredOutputInstructions ==
                 generateStructuredOutputInstructions(sanitizedRequest.responseFormat.v)
             originalPrompt == IF IsVal(sanitizedRequest.systemPrompt)
                               THEN sanitizedRequest.systemPrompt.v ELSE <<>>
         IN IF Trim(structuredOutputInstructions) # <<>>
            THEN [sanitizedRequest EXCEPT !.systemPrompt =
                    Val(Trim(originalPrompt \o <<"\n\n">> \o structuredOutputInstructions))]
            ELSE sanitizedRequest

ErrNotConfigured(endpointName) ==
    [message |-> "Custom endpoint not configured. Please configure the endpoint in workspace settings.",
     endpointName |-> IF endpointName # <<>> THEN endpointName ELSE <<"unknown">>]

\* what an executor does with the request: the error it throws or the call it
\* makes to the upstream API
UpstreamCall(baseUrl, apiKey, headers, model) ==
    [threw |-> FALSE,
     upstream |-> [baseUrl |-> baseUrl, apiKey |-> apiKey, headers |-> headers,
                   model |-> model]]

\* an executor that sends the model string as it came, prefix and endpoint
\* name included (used to test the claims)
customGoogleProvider_fullModel(request) ==
    IF ~(request.customGoogleBaseUrl.k = "val" /\ request.customGoogleBaseUrl.v # "")
    THEN [threw |-> TRUE, error |-> [message |-> "not configured"]]
    ELSE [threw |-> FALSE,
          upstream |-> [baseUrl |-> request.customGoogleBaseUrl,
                        apiKey |-> request.apiKey,
                        headers |-> request.customGoogleHeaders,
                        model |-> request.model]]

customGoogleProvider(request) ==
    LET parsed == parseCustomGoogleModel(request.model)
        baseUrl == request.customGoogleBaseUrl
    IN IF ~TruthyString(baseUrl)
       THEN [threw |-> TRUE, error |-> ErrNotConfigured(parsed.endpointName)]
       ELSE UpstreamCall(baseUrl,
                IF TruthyString(request.apiKey) THEN request.apiKey ELSE Val("empty"),
                IF IsVal(request.customGoogleHeaders)
                   /\ ObjectKeys(request.customGoogleHeaders.v) # {}
                THEN request.customGoogleHeaders ELSE Undefined,
                parsed.modelName)

\* providers/custom-openai/index.ts is not among the sources; modelled after
\* step 5 of section 4.4 of the specification, as the custom-google executor
customOpenAIProvider(request) ==
    LET parsed == parseCustomOpenAIModel(request.model)
        baseUrl == request.customOpenaiBaseUrl
    IN IF ~TruthyString(baseUrl)
       THEN [threw |-> TRUE, error |-> ErrNotConfigured(parsed.endpointName)]
       ELSE UpstreamCall(baseUrl,
                IF TruthyString(request.apiKey) THEN request.apiKey ELSE Val("empty"),
                IF IsVal(request.customOpenaiHeaders)
                   /\ ObjectKeys(request.customOpenaiHeaders.v) # {}
                THEN request.customOpenaiHeaders ELSE Undefined,
                parsed.modelName)

\* providers/custom-anthropic/index.ts is not among the sources; modelled
\* after step 5 of section 4.4 of the specification, as the custom-google executor
customAnthropicProvider(request) ==
    LET parsed == parseCustomAnthropicModel(request.model)
        baseUrl == request.customAnthropicBaseUrl
    IN IF ~TruthyString(baseUrl)
       THEN [threw |-> TRUE, error |-> ErrNotConfigured(parsed.endpointName)]
       ELSE UpstreamCall(baseUrl,
                IF TruthyString(request.apiKey) THEN request.apiKey ELSE Val("empty"),
                IF IsVal(request.customAnthropicHeaders)
                   /\ ObjectKeys(request.customAnthropicHeaders.v) # {}
                THEN request.customAnthropicHeaders ELSE Undefined,
                parsed.modelName)

\* a provider of the platform: its own API, the key of the request
hostedProvider(request) ==
    UpstreamCall(Val("https://api"), request.apiKey, Undefined, request.model)

executeRequest(providerId, request) ==
    CASE providerId = "custom-openai" -> customOpenAIProvider(request)
      [] providerId = "custom-anthropic" -> customAnthropicProvider(request)
      [] providerId = "custom-google" -> customGoogleProvider(request)
      [] OTHER -> hostedProvider(request)

\* what the upstream API answers
TokenUsages == {[input |-> Val(2), output |-> Val(3)],
                [input |-> Undefined, output |-> Val(3)]}

UpstreamResponses ==
    {[kind |-> "ReadableStream"], [kind |-> "StreamingExecution"], [kind |-> "error"]}
        \cup {[kind |-> "ProviderResponse", model |-> m, tokens |-> Val(u),
                cost |-> Undefined] : m \in {ModelLocal, ModelHosted}, u \in TokenUsages}
        \cup {[kind |-> "ProviderResponse", model |-> ModelHosted, tokens |-> Undefined,
                cost |-> Undefined]}

Default(o, d) == IF o = Undefined THEN d ELSE o.v

\* the response executeProviderRequest returns for what the executor returned
WithCost(response, isBYOK) ==
    IF response.kind # "ProviderResponse" \/ ~IsVal(response.tokens)
    THEN response
    ELSE LET promptTokens == Default(response.tokens.v.input, 0)
             completionTokens == Default(response.tokens.v.output, 0)
             shouldBill == shouldBillModelUsage(response.model) /\ ~isBYOK
         IN [response EXCEPT !.cost =
                IF shouldBill
                THEN Val(calculateCost(response.model, promptTokens, completionTokens))
                ELSE Val(ZeroCost)]

NoOutcome == [threw |-> FALSE, returned |-> FALSE]

ErrProviderNotFound == [message |-> "Provider not found"]
ErrNoExecuteRequest == [message |-> "Provider does not implement executeRequest"]
ErrApiKey == [message |-> "Failed to resolve API key"]
ErrUpstream == [message |-> "upstream"]

\* executeProviderRequest rejects
Throw(frame, error, invoked) ==
    /\ dispatch' = Idle
    /\ outcome' = [threw |-> TRUE, returned |-> FALSE, providerId |-> frame.providerId,
                   request |-> frame.request, error |-> error, invoked |-> invoked,
                   endpointConfig |-> frame.endpointConfig]
    /\ UNCHANGED tableVars

\* an await of the executor that leaves the isBYOK of the inbound request in
\* the request it hands over (used to test the claims)
Await_inboundIsBYOK(frame, resolvedRequest, isBYOK, endpointConfig) ==
    /\ dispatch' = [frame EXCEPT
            !.pc = "execute",
            !.sanitizedRequest = resolvedRequest,
            !.isBYOK = isBYOK,
            !.endpointConfig = endpointConfig]
    /\ outcome' = [threw |-> FALSE, returned |-> FALSE]
    /\ UNCHANGED <<db, nextId>>

\* getApiKeyWithBYOK was not called
NoByok == [threw |-> FALSE, called |-> FALSE]

\* executeProviderRequest awaits the executor
Await(frame, resolvedRequest, isBYOK, endpointConfig) ==
    /\ dispatch' = [frame EXCEPT
            !.pc = "execute",
            !.sanitizedRequest =
                WithStructuredOutput([resolvedRequest EXCEPT !.isBYOK = Val(isBYOK)]),
            !.isBYOK = isBYOK,
            !.endpointConfig = endpointConfig]
    /\ outcome' = NoOutcome
    /\ UNCHANGED tableVars

\* executeProviderRequest up to the call of the executor
DispatchResolve ==
    /\ dispatch = Idle
    /\ Called
    /\ \E providerId \in ProviderIds : \E request \in DispatchRequests(providerId) :
        LET provider == getProviderExecutor(providerId)
            resolvedRequest == sanitizeRequest(request)
            frame == [pc |-> "resolve", providerId |-> providerId, request |-> request,
                      sanitizedRequest |-> resolvedRequest, isBYOK |-> FALSE,
                      endpointConfig |-> Null, byok |-> NoByok]
        IN IF provider = Undefined
           THEN Throw(frame, ErrProviderNotFound, FALSE)
           ELSE IF ~provider.v.executeRequest
           THEN Throw(frame, ErrNoExecuteRequest, FALSE)
           ELSE IF providerId \in CustomProviderIds /\ TruthyString(request.workspaceId)
           THEN LET endpointName == parseCustomModel(providerId, request.model).endpointName
                IN IF endpointName = <<>>
                   THEN Await(frame, resolvedRequest, FALSE, Null)
                   ELSE LET endpointConfig ==
                                getCustomEndpointByName(db, request.workspaceId.v,
                                                        endpointName)
                        IN IF endpointConfig = Null
                           THEN Throw(frame, ErrEndpointNotFound(endpointName), FALSE)
                           ELSE Await(frame,
                                      MergeEndpoint(providerId, resolvedRequest,
                                                    endpointConfig.v),
                                      FALSE, endpointConfig)
           ELSE IF TruthyString(request.workspaceId)
           THEN \E result \in ByokResults(request.apiKey) :
                    IF result.threw
                    THEN Throw(frame, ErrApiKey, FALSE)
                    ELSE Await([frame EXCEPT !.byok = result],
                               [resolvedRequest EXCEPT !.apiKey = result.apiKey],
                               result.isBYOK, Null)
           ELSE Await(frame, resolvedRequest, FALSE, Null)

\* executeProviderRequest from the call of the executor to its return
DispatchExecute ==
    /\ dispatch # Idle
    /\ LET call == executeRequest(dispatch.providerId, dispatch.sanitizedRequest)
       IN IF call.threw
          THEN Throw(dispatch, call.error, TRUE)
          ELSE \E response \in UpstreamResponses :
                  IF response.kind = "error"
                  THEN Throw(dispatch, ErrUpstream, TRUE)
                  ELSE /\ dispatch' = Idle
                       /\ outcome' = [threw |-> FALSE, returned |-> TRUE,
                                      providerId |-> dispatch.providerId,
                                      request |-> dispatch.request,
                                      handed |-> dispatch.sanitizedRequest,
                                      upstream |-> call.upstream,
                                      isBYOK |-> dispatch.isBYOK,
                                      endpointConfig |-> dispatch.endpointConfig,
                                      response |-> WithCost(response, dispatch.isBYOK)]
                       /\ UNCHANGED tableVars

-----------------------------------------------------------------------------
(* getCustomEndpointByName, await by await *)

\* the row whose columns a step of the lookup in flight reads: the row the
\* select returned
Selected_current(frame, rows) ==
    IF \E r \in rows : r.id = frame.endpoint.id
    THEN CHOOSE r \in rows : r.id = frame.endpoint.id
    ELSE frame.endpoint

Selected(frame, rows) == frame.endpoint

\* the call and its select: no row returns null, a row becomes the local
\* endpoint; selected is the table the select read
ResolveSelect ==
    /\ lookup = Idle
    /\ Called
    /\ \E workspaceId \in Workspaces, endpointName \in Names :
        LET result == SelectByName(db, workspaceId, endpointName)
        IN IF result = {}
           THEN /\ lookup' = Idle
                /\ ret' = [fn |-> "getByName", workspaceId |-> workspaceId,
                           endpointName |-> endpointName, threw |-> FALSE,
                           value |-> Null, selected |-> db]
           ELSE /\ lookup' = [pc |-> "decryptApiKey", workspaceId |-> workspaceId,
                              endpointName |-> endpointName,
                              endpoint |-> First(result),
                              apiKey |-> Null, headers |-> Null, selected |-> db]
                /\ ret' = NoReturn
    /\ UNCHANGED tableVars

\* if (endpoint.encryptedApiKey) { try { apiKey = decrypted } catch {} }
ResolveDecryptApiKey ==
    /\ lookup # Idle
    /\ lookup.pc = "decryptApiKey"
    /\ LET endpoint == Selected(lookup, db)
           d == decryptSecret(endpoint.encryptedApiKey)
       IN lookup' = [lookup EXCEPT
                !.pc = "decryptHeaders",
                !.apiKey = IF TruthyColumn(endpoint.encryptedApiKey) /\ ~d.threw
                           THEN Val(d.decrypted) ELSE Null]
    /\ ret' = NoReturn
    /\ UNCHANGED <<tableVars, ops>>

\* if (endpoint.encryptedHeaders) { try { headers = JSON.parse(decrypted) }
\* catch {} } and the return of the descriptor
ResolveDecryptHeaders ==
    /\ lookup # Idle
    /\ lookup.pc = "decryptHeaders"
    /\ LET endpoint == Selected(lookup, db)
           d == decryptSecret(endpoint.encryptedHeaders)
           headers == IF /\ TruthyColumn(endpoint.encryptedHeaders)
                         /\ ~d.threw
                         /\ JsonParses(d.decrypted)
                      THEN Val(JsonParse(d.decrypted)) ELSE Null
       IN ret' = [fn |-> "getByName", workspaceId |-> lookup.workspaceId,
                  endpointName |-> lookup.endpointName, threw |-> FALSE,
                  value |-> Val([id |-> endpoint.id,
                                 workspaceId |-> endpoint.workspaceId,
                                 name |-> endpoint.name,
                                 baseUrl |-> endpoint.baseUrl,
                                 apiType |-> IF endpoint.apiType = "" THEN "openai"
                                             ELSE endpoint.apiType,
                                 apiKey |-> lookup.apiKey,
                                 headers |-> headers,
                                 createdBy |-> endpoint.createdBy,
                                 createdAt |-> endpoint.createdAt, updatedAt |-> endpoint.updatedAt]),
                  selected |-> lookup.selected]
    /\ lookup' = Idle
    /\ UNCHANGED <<tableVars, ops>>

-----------------------------------------------------------------------------
(* The settings form: the CustomLlm component *)

\* how many header rows the form is given here
MaxHeaders == 2

\* what a user types into each text input
Typed ==
    [name |-> {<<>>, NameA, NameB},
     baseUrl |-> {"", " ", "https://h1"},
     apiKey |-> {"", "k1"},
     headerKey |-> {"", "h1"},
     headerValue |-> {"", " ", "v1"}]

\* String.prototype.trim() of a typed text: a blank text becomes the empty
\* one; the other texts typed here have no blanks at their ends
TrimText(s) == IF s \in BlankPieces THEN "" ELSE s

\* an array holding the members of a set, in some order
AsArray(S) == CHOOSE a \in [1..Cardinality(S) -> S] : Range(a) = S

EmptyFormData ==
    [name |-> <<>>, baseUrl |-> "", apiType |-> "openai", apiKey |-> "", headers |-> <<>>]

\* useState(...): no dialog open, the form empty, no mutation issued
InitialForm ==
    [isCreating |-> FALSE, editingEndpoint |-> Null, formData |-> EmptyFormData,
     error |-> Null, sent |-> NoCall]

isEditing == form.editingEndpoint # Null
isModalOpen == form.isCreating \/ isEditing

\* a handler that issues no mutation leaves the form in this state
FormBecomes(isCreating, editingEndpoint, formData, error) ==
    form' = [isCreating |-> isCreating, editingEndpoint |-> editingEndpoint,
             formData |-> formData, error |-> error, sent |-> NoCall]

handleOpenCreate ==
    /\ ~isModalOpen
    /\ FormBecomes(TRUE, Null, EmptyFormData, Null)

\* the pencil button of an endpoint of the list
handleOpenEdit ==
    /\ ~isModalOpen
    /\ \E workspaceId \in Workspaces :
         \E endpoint \in getCustomEndpoints(db, workspaceId) :
            FormBecomes(FALSE, Val(endpoint),
                [name |-> endpoint.name,
                 baseUrl |-> endpoint.baseUrl,
                 apiType |-> endpoint.apiType,
                 apiKey |-> "",
                 headers |-> [i \in 1..Cardinality(endpoint.headerNames) |->
                                [key |-> AsArray(endpoint.headerNames)[i], value |-> ""]]],
                Null)

handleCloseModal ==
    /\ isModalOpen
    /\ FormBecomes(FALSE, Null, EmptyFormData, Null)

handleAddHeader ==
    /\ isModalOpen
    /\ Len(form.formData.headers) < MaxHeaders
    /\ FormBecomes(form.isCreating, form.editingEndpoint,
            [form.formData EXCEPT !.headers = Append(@, [key |-> "", value |-> ""])],
            form.error)

handleRemoveHeader ==
    /\ isModalOpen
    /\ \E index \in DOMAIN form.formData.headers :
         FormBecomes(form.isCreating, form.editingEndpoint,
            [form.formData EXCEPT !.headers =
                [i \in 1..(Len(@) - 1) |-> IF i < index THEN @[i] ELSE @[i + 1]]],
            form.error)

handleHeaderChange ==
    /\ isModalOpen
    /\ \E index \in DOMAIN form.formData.headers :
         \/ \E value \in Typed.headerKey :
              FormBecomes(form.isCreating, form.editingEndpoint,
                 [form.formData EXCEPT !.headers[index].key = value], Null)
         \/ \E value \in Typed.headerValue :
              FormBecomes(form.isCreating, form.editingEndpoint,
                 [form.formData EXCEPT !.headers[index].value = value], Null)

\* onChange of the name, base URL and API key inputs and of the API type
\* select; name and API type are disabled while editing
handleInputChange ==
    /\ isModalOpen
    /\ \/ \E value \in Typed.name :
            /\ ~isEditing
            /\ FormBecomes(form.isCreating, form.editingEndpoint,
                  [form.formData EXCEPT !.name = value], Null)
       \/ \E value \in ApiTypes :
            /\ ~isEditing
            /\ FormBecomes(form.isCreating, form.editingEndpoint,
                  [form.formData EXCEPT !.apiType = value], form.error)
       \/ \E value \in Typed.baseUrl :
            FormBecomes(form.isCreating, form.editingEndpoint,
                  [form.formData EXCEPT !.baseUrl = value], Null)
       \/ \E value \in Typed.apiKey :
            FormBecomes(form.isCreating, form.editingEndpoint,
                  [form.formData EXCEPT !.apiKey = value], Null)

\* the header rows handleSave refuses: a name without a value or a value
\* without a name
invalidHeaders(headers) ==
    {i \in DOMAIN headers :
        \/ TrimText(headers[i].key) # "" /\ TrimText(headers[i].value) = ""
        \/ TrimText(headers[i].key) = "" /\ TrimText(headers[i].value) # ""}

\* the rows with a name and a value, reduced to a Record: a later row of the
\* same name overwrites an earlier one
headersRecord(headers) ==
    LET kept == {i \in DOMAIN headers :
                    TrimText(headers[i].key) # "" /\ TrimText(headers[i].value) # ""}
    IN [k \in {TrimText(headers[i].key) : i \in kept} |->
          LET last == CHOOSE i \in kept :
                        /\ TrimText(headers[i].key) = k
                        /\ \A j \in kept : TrimText(headers[j].key) = k => j <= i
          IN TrimText(headers[last].value)]

\* the headers field of the mutation
headersToSend(editing, headers) ==
    LET hasHeaderChanges == \E i \in DOMAIN headers : TrimText(headers[i].value) # ""
    IN IF editing /\ ~hasHeaderChanges /\ Len(headers) > 0
       THEN Undefined
       ELSE IF ObjectKeys(headersRecord(headers)) # {}
       THEN Val(headersRecord(headers))
       ELSE Undefined

\* x || undefined for a text
OrUndefined(s) == IF s = "" THEN Undefined ELSE Val(s)

\* the Update / Create button, enabled when name and base URL are not blank;
\* the mutation it awaits resolves or rejects
handleSave ==
    /\ isModalOpen
    /\ Trim(form.formData.name) # <<>>
    /\ TrimText(form.formData.baseUrl) # ""
    /\ LET formData == form.formData
           refuse(message) ==
               form' = [form EXCEPT !.error = Val(message), !.sent = NoCall]
       IN IF Trim(formData.name) = <<>> \/ TrimText(formData.baseUrl) = ""
          THEN refuse("Name and Base URL are required")
          ELSE IF ~(Range(formData.name) \subseteq NameChars)
          THEN refuse("Name must contain only letters, numbers, underscores, and hyphens")
          ELSE IF invalidHeaders(formData.headers) # {}
          THEN refuse("Header names and values must both be provided")
          ELSE LET mutation ==
                     IF isEditing
                     THEN [fn |-> "update",
                           endpointId |-> form.editingEndpoint.v.id,
                           name |-> Trim(formData.name),
                           baseUrl |-> TrimText(formData.baseUrl),
                           apiKey |-> OrUndefined(TrimText(formData.apiKey)),
                           headers |-> headersToSend(TRUE, formData.headers)]
                     ELSE [fn |-> "create",
                           name |-> Trim(formData.name),
                           baseUrl |-> TrimText(formData.baseUrl),
                           apiType |-> formData.apiType,
                           apiKey |-> OrUndefined(TrimText(formData.apiKey)),
                           headers |-> IF ObjectKeys(headersRecord(formData.headers)) # {}
                                       THEN Val(headersRecord(formData.headers))
                                       ELSE Undefined]
               IN \E resolved \in BOOLEAN :
                    form' = IF resolved
                            THEN [InitialForm EXCEPT !.sent = mutation]
                            ELSE [form EXCEPT !.error = Val("Failed to save endpoint"),
                                              !.sent = mutation]

-----------------------------------------------------------------------------
NotParsed == [family |-> "none"]

InitTableVars ==
    /\ db = {}
    /\ nextId = 0

InitStoreVars ==
    /\ ops = 0
    /\ ret = NoReturn

InitRouteVars ==
    /\ started = 0
    /\ reqs = [s \in Slots |-> Idle]
    /\ resp = NoResponse

InitParseVars ==
    /\ parseIn = <<>>
    /\ parseOut = NotParsed

InitDispatchVars ==
    /\ dispatch = Idle
    /\ outcome = NoOutcome
    /\ gone = {}

InitResolveVars ==
    /\ lookup = Idle

InitFormVars ==
    /\ form = InitialForm

InitParse ==
    /\ parseIn \in StringsUpTo(MaxLen)
    /\ parseOut = NotParsed
    /\ InitTableVars
    /\ InitStoreVars
    /\ InitRouteVars
    /\ InitDispatchVars
    /\ InitResolveVars
    /\ InitFormVars

ParseGoogle ==
    /\ parseOut = NotParsed
    /\ parseOut' = [family |-> "google", prefix |-> PrefixGoogle,
                    result |-> parseCustomGoogleModel(parseIn)]
    /\ UNCHANGED <<parseIn, tableVars, storeVars, routeVars, dispatchVars, resolveVars, formVars>>

ParseAnthropic ==
    /\ parseOut = NotParsed
    /\ parseOut' = [family |-> "anthropic", prefix |-> PrefixAnthropic,
                    result |-> parseCustomAnthropicModel(parseIn)]
    /\ UNCHANGED <<parseIn, tableVars, storeVars, routeVars, dispatchVars, resolveVars, formVars>>

ParseOpenAI ==
    /\ parseOut = NotParsed
    /\ parseOut' = [family |-> "openai", prefix |-> PrefixOpenAI,
                    result |-> parseCustomOpenAIModel(parseIn)]
    /\ UNCHANGED <<parseIn, tableVars, storeVars, routeVars, dispatchVars, resolveVars, formVars>>

NextParse == ParseGoogle \/ ParseAnthropic \/ ParseOpenAI

SpecParse == InitParse /\ [][NextParse]_vars

InitStore ==
    /\ InitTableVars
    /\ InitStoreVars
    /\ InitRouteVars
    /\ InitParseVars
    /\ InitDispatchVars
    /\ InitResolveVars
    /\ InitFormVars

NextStore ==
    \/ StoreCreate /\ UNCHANGED <<routeVars, parseVars, dispatchVars, resolveVars, formVars>>
    \/ StoreUpdate /\ UNCHANGED <<routeVars, parseVars, dispatchVars, resolveVars, formVars>>
    \/ StoreDelete /\ UNCHANGED <<routeVars, parseVars, dispatchVars, resolveVars, formVars>>
    \/ StoreList /\ UNCHANGED <<routeVars, parseVars, dispatchVars, resolveVars, formVars>>
    \/ StoreGetByName /\ UNCHANGED <<routeVars, parseVars, dispatchVars, resolveVars, formVars>>
    \/ StoreGetById /\ UNCHANGED <<routeVars, parseVars, dispatchVars, resolveVars, formVars>>
    \/ StoreIsNameAvailable /\ UNCHANGED <<routeVars, parseVars, dispatchVars, resolveVars, formVars>>
    \/ CiphertextLost /\ UNCHANGED <<routeVars, parseVars, dispatchVars, resolveVars, formVars>>

SpecStore == InitStore /\ [][NextStore]_vars

InitRoutes ==
    /\ InitTableVars
    /\ InitStoreVars
    /\ InitRouteVars
    /\ InitParseVars
    /\ InitDispatchVars
    /\ InitResolveVars
    /\ InitFormVars

NextRoutes ==
    \E slot \in Slots :
        \/ PostStart(slot) /\ UNCHANGED <<storeVars, parseVars, dispatchVars, resolveVars, formVars>>
        \/ PostInsert(slot) /\ UNCHANGED <<storeVars, parseVars, dispatchVars, resolveVars, formVars>>
        \/ GetDetail(slot) /\ UNCHANGED <<storeVars, parseVars, dispatchVars, resolveVars, formVars>>
        \/ GetList(slot) /\ UNCHANGED <<storeVars, parseVars, dispatchVars, resolveVars, formVars>>
        \/ PatchStart(slot) /\ UNCHANGED <<storeVars, parseVars, dispatchVars, resolveVars, formVars>>
        \/ PatchCheck(slot) /\ UNCHANGED <<storeVars, parseVars, dispatchVars, resolveVars, formVars>>
        \/ PatchUpdate(slot) /\ UNCHANGED <<storeVars, parseVars, dispatchVars, resolveVars, formVars>>
        \/ DeleteStart(slot) /\ UNCHANGED <<storeVars, parseVars, dispatchVars, resolveVars, formVars>>
        \/ DeleteExec(slot) /\ UNCHANGED <<storeVars, parseVars, dispatchVars, resolveVars, formVars>>

SpecRoutes == InitRoutes /\ [][NextRoutes]_vars

\* a table that two calls of createCustomEndpoint have filled
SeedTable ==
    LET first == [id |-> 1, workspaceId |-> "w1", name |-> NameA,
                  baseUrl |-> "https://h2", apiType |-> Val("google"),
                  apiKey |-> Val("k1"), headers |-> Val(Headers1),
                  createdBy |-> "alice"]
        second == [id |-> 2, workspaceId |-> "w1", name |-> NameB,
                   baseUrl |-> "https://h2", apiType |-> Val("openai"),
                   apiKey |-> Val("k2"), headers |-> Val(Headers2),
                   createdBy |-> "bob"]
    IN createCustomEndpoint(createCustomEndpoint({}, first).rows, second).rows

\* what deletes and creates have made of the set of deleted names: a delete
\* adds the name of the endpoint it was asked to delete, a successful create
\* removes the name it stored, and an update that brings a deleted name back
\* marks it
Deleted(row, renamed) ==
    [workspaceId |-> row.workspaceId, name |-> row.name, renamed |-> renamed]

Remember(deleted, rows, r) ==
    CASE r.fn = "delete" ->
            deleted \cup {Deleted(row, FALSE) : row \in SelectById(rows, r.endpointId)}
      [] r.fn = "create" /\ ~r.threw ->
            deleted \ {Deleted(r.params, FALSE), Deleted(r.params, TRUE)}
      [] r.fn = "update" /\ ~r.threw ->
            {IF \E e \in r.value : Deleted(e, g.renamed) = g
             THEN Deleted(g, TRUE) ELSE g : g \in deleted}
      [] OTHER -> deleted

\* dispatching starts on an empty table or on one already filled
InitDispatch ==
    /\ InitStoreVars
    /\ InitRouteVars
    /\ nextId \in {0, 2}
    /\ db = IF nextId = 0 THEN {} ELSE SeedTable
    /\ InitParseVars
    /\ InitDispatchVars
    /\ InitResolveVars
    /\ InitFormVars

\* the endpoints created while requests are dispatched: one with a key and
\* headers, one with neither
DispatchCreateParams ==
    {p \in StoreCreateParams :
        <<p.name, p.baseUrl>> \in {<<NameA, "https://h2">>, <<NameB, "https://h1">>}}

\* the updates made while requests are dispatched: a rename and an empty key
DispatchUpdateParams ==
    {[NoChange EXCEPT !.name = Val(NameB)],
     [NoChange EXCEPT !.apiKey = Val("")]}

\* dispatches, while the store is written to; MaxOps bounds the calls made,
\* store calls and dispatches together
NextDispatch ==
    \/ Create(DispatchCreateParams) /\ dispatch' = dispatch /\ outcome' = NoOutcome
                   /\ gone' = Remember(gone, db, ret')
                   /\ UNCHANGED <<routeVars, parseVars, resolveVars, formVars>>
    \/ StoreDelete /\ dispatch' = dispatch /\ outcome' = NoOutcome
                   /\ gone' = Remember(gone, db, ret')
                   /\ UNCHANGED <<routeVars, parseVars, resolveVars, formVars>>
    \/ Update(DispatchUpdateParams) /\ dispatch' = dispatch /\ outcome' = NoOutcome
                   /\ gone' = Remember(gone, db, ret')
                   /\ UNCHANGED <<routeVars, parseVars, resolveVars, formVars>>
    \/ Lose({"apiKey"}) /\ dispatch' = dispatch /\ outcome' = NoOutcome
                   /\ gone' = Remember(gone, db, ret')
                   /\ UNCHANGED <<routeVars, parseVars, resolveVars, formVars>>
    \/ DispatchResolve /\ ret' = NoReturn /\ UNCHANGED <<gone, routeVars, parseVars, resolveVars, formVars>>
    \/ DispatchExecute /\ ret' = NoReturn /\ UNCHANGED <<gone, ops, routeVars, parseVars, resolveVars, formVars>>

SpecDispatch == InitDispatch /\ [][NextDispatch]_vars

\* a lookup by name, await by await, while the store is written to
InitResolve ==
    /\ InitStoreVars
    /\ InitRouteVars
    /\ nextId \in {0, 2}
    /\ db = IF nextId = 0 THEN {} ELSE SeedTable
    /\ InitParseVars
    /\ InitDispatchVars
    /\ InitResolveVars
    /\ InitFormVars

NextResolve ==
    \/ StoreCreate /\ UNCHANGED <<routeVars, parseVars, dispatchVars, resolveVars, formVars>>
    \/ StoreUpdate /\ UNCHANGED <<routeVars, parseVars, dispatchVars, resolveVars, formVars>>
    \/ StoreDelete /\ UNCHANGED <<routeVars, parseVars, dispatchVars, resolveVars, formVars>>
    \/ ResolveSelect /\ UNCHANGED <<routeVars, parseVars, dispatchVars, formVars>>
    \/ ResolveDecryptApiKey /\ UNCHANGED <<routeVars, parseVars, dispatchVars, formVars>>
    \/ ResolveDecryptHeaders /\ UNCHANGED <<routeVars, parseVars, dispatchVars, formVars>>

SpecResolve == InitResolve /\ [][NextResolve]_vars

\* the form over the list of a table that holds endpoints with headers
InitForm ==
    /\ InitStoreVars
    /\ InitRouteVars
    /\ nextId = 2
    /\ db = SeedTable
    /\ InitParseVars
    /\ InitDispatchVars
    /\ InitResolveVars
    /\ InitFormVars

NextForm ==
    \/ handleOpenCreate /\ UNCHANGED <<tableVars, storeVars, routeVars, parseVars, dispatchVars, resolveVars>>
    \/ handleOpenEdit /\ UNCHANGED <<tableVars, storeVars, routeVars, parseVars, dispatchVars, resolveVars>>
    \/ handleCloseModal /\ UNCHANGED <<tableVars, storeVars, routeVars, parseVars, dispatchVars, resolveVars>>
    \/ handleAddHeader /\ UNCHANGED <<tableVars, storeVars, routeVars, parseVars, dispatchVars, resolveVars>>
    \/ handleRemoveHeader /\ UNCHANGED <<tableVars, storeVars, routeVars, parseVars, dispatchVars, resolveVars>>
    \/ handleHeaderChange /\ UNCHANGED <<tableVars, storeVars, routeVars, parseVars, dispatchVars, resolveVars>>
    \/ handleInputChange /\ UNCHANGED <<tableVars, storeVars, routeVars, parseVars, dispatchVars, resolveVars>>
    \/ handleSave /\ UNCHANGED <<tableVars, storeVars, routeVars, parseVars, dispatchVars, resolveVars>>

SpecForm == InitForm /\ [][NextForm]_vars

-----------------------------------------------------------------------------
(* C1 *)

\* the step is executeProviderRequest up to its rejection or its await of the executor
ResolveStep == dispatch = Idle /\ (dispatch' # Idle \/ outcome'.threw)

\* the provider id and request of that step
Resolving == IF dispatch' # Idle THEN dispatch' ELSE outcome'

NoSuchEndpoint(rows, workspaceId, endpointName) ==
    \A r \in rows : ~(workspaceId = Val(r.workspaceId) /\ r.name = endpointName)

MissingEndpointIsFatal(requireWorkspace) ==
    LET providerId == Resolving.providerId
        request == Resolving.request
        endpointName == parseCustomModel(providerId, request.model).endpointName
    IN (/\ ResolveStep
        /\ providerId \in CustomProviderIds
        /\ endpointName # <<>>
        /\ requireWorkspace => request.workspaceId # Undefined
        /\ NoSuchEndpoint(db, request.workspaceId, endpointName))
       => /\ dispatch' = Idle
          /\ outcome'.threw
          /\ outcome'.error = ErrEndpointNotFound(endpointName)
          /\ ~outcome'.invoked

\* C1 as stated: a custom-family dispatch whose model yields a non-empty
\* endpoint name, when no endpoint of that name exists in request.workspaceId,
\* rejects with the "Custom LLM endpoint not found" error and never reaches
\* the executor.
C1_MissingEndpointIsFatalAsStated == [][MissingEndpointIsFatal(FALSE)]_vars

\* C1, amended: a custom-family dispatch with a workspaceId whose model yields
\* a non-empty endpoint name, when no endpoint of that name exists in that
\* workspace, rejects with the "Custom LLM endpoint not found" error and never
\* reaches the executor.
C1_MissingEndpointIsFatal == [][MissingEndpointIsFatal(TRUE)]_vars

\* a dispatch for endpoint "a" of w1 was rejected as not found while another
\* workspace had an endpoint of that name
C1_Witness ==
    /\ outcome.threw
    /\ outcome.providerId = "custom-openai"
    /\ outcome.request.workspaceId = Val("w1")
    /\ outcome.error = ErrEndpointNotFound(NameA)
    /\ ~outcome.invoked
    /\ \E r \in db : r.name = NameA /\ r.workspaceId = "w2"

-----------------------------------------------------------------------------
(* C2 *)

\* C2: every returned non-streaming response with token usage, of a request
\* resolved through a custom endpoint or through a BYOK key, has cost.total 0,
\* whatever model name the response reports.
C2_CustomOrByokNotBilled ==
    (/\ outcome.returned
     /\ outcome.response.kind = "ProviderResponse"
     /\ IsVal(outcome.response.tokens)
     /\ outcome.endpointConfig # Null \/ outcome.isBYOK)
    => /\ IsVal(outcome.response.cost)
       /\ outcome.response.cost.v.total = 0

-----------------------------------------------------------------------------
(* C8 *)

\* the reference: strip the family prefix if present, split on the first "/"
RefRemainder(prefix, s) ==
    IF s # <<>> /\ Head(s) = prefix THEN Tail(s) ELSE s

RefIsSplit(rest, e, m) ==
    /\ rest = e \o <<Slash>> \o m
    /\ Slash \notin Range(e)

\* C8: each of the three parsers returns, for every input, a pair: for a
\* remainder without "/" the endpoint name is empty and the model name is the
\* whole remainder; otherwise the remainder is endpointName "/" modelName with
\* no "/" in endpointName (further "/" stay in modelName).
C8_ParsersEqualReference ==
    parseOut # NotParsed =>
        LET rest == RefRemainder(parseOut.prefix, parseIn)
            r == parseOut.result
        IN /\ DOMAIN r = {"endpointName", "modelName"}
           /\ IF Slash \notin Range(rest)
              THEN r.endpointName = <<>> /\ r.modelName = rest
              ELSE RefIsSplit(rest, r.endpointName, r.modelName)

\* a prefixed identifier with two "/" has been parsed by the Google parser
C8_Witness ==
    /\ parseOut # NotParsed
    /\ parseOut.family = "google"
    /\ parseIn = <<PrefixGoogle, "a", Slash, "b", Slash>>
    /\ parseOut.result = [endpointName |-> <<"a">>, modelName |-> <<"b", Slash>>]

-----------------------------------------------------------------------------
(* C3 *)

ViewFields == {"id", "workspaceId", "name", "baseUrl", "apiType",
               "hasApiKey", "headerNames", "createdBy", "createdAt", "updatedAt"}

\* a view whose every field is of its public type: no field holds a key, a
\* ciphertext or a header value
PublicView(e) ==
    /\ DOMAIN e = ViewFields
    /\ e.id \in KnownIds
    /\ e.workspaceId \in Workspaces
    /\ ValidName(e.name)
    /\ e.baseUrl \in Urls
    /\ e.apiType \in ApiTypes
    /\ e.hasApiKey \in BOOLEAN
    /\ e.headerNames \subseteq HeaderNames
    /\ e.createdBy \in Users
    /\ e.createdAt \in Nat
    /\ e.updatedAt \in Nat

\* C3: every endpoint in the body of a successful list, POST, PATCH or detail
\* GET response has exactly the public fields, hasApiKey a boolean and
\* headerNames a set of header names: no plaintext or encrypted key and no
\* header value.
C3_ViewsCarryNoSecrets ==
    resp.status = 200 => \A e \in resp.payload : PublicView(e)

\* the detail GET of an endpoint that has a key and headers has been answered
C3_Witness ==
    /\ resp.status = 200
    /\ resp.request.kind = "GET"
    /\ \E e \in resp.payload : e.hasApiKey /\ e.headerNames = {"h1"}

-----------------------------------------------------------------------------
(* C4 *)

\* C4: in every state reached by interleaved POST, PATCH and DELETE handlers,
\* two rows with the same workspace and name are the same row.
C4_WorkspaceNameUnique ==
    \A r1 \in db, r2 \in db :
        (r1.workspaceId = r2.workspaceId /\ r1.name = r2.name) => r1 = r2

\* two POSTs of one name raced: both passed the availability check and the
\* second insert found the name taken
C4_Witness ==
    /\ resp.status = 500
    /\ resp.request.kind = "POST"
    /\ resp.call.fn = "create"
    /\ resp.call.held

-----------------------------------------------------------------------------
(* C5 *)

\* C5 as stated: right after create(params), resolveByName(workspaceId, name)
\* returns params.baseUrl and params.apiKey, null when apiKey was omitted.
C5_RoundTripAsStated ==
    (ret.fn = "create" /\ ~ret.threw) =>
        LET r == getCustomEndpointByName(db, ret.params.workspaceId, ret.params.name)
        IN /\ r # Null
           /\ r.v.baseUrl = ret.params.baseUrl
           /\ r.v.apiKey = IF ret.params.apiKey = Undefined THEN Null
                           ELSE ret.params.apiKey

\* C5, amended: right after create(params), resolveByName(workspaceId, name)
\* returns params.baseUrl and params.apiKey, null when apiKey was omitted or
\* was the empty string.
C5_RoundTrip ==
    (ret.fn = "create" /\ ~ret.threw) =>
        LET r == getCustomEndpointByName(db, ret.params.workspaceId, ret.params.name)
        IN /\ r # Null
           /\ r.v.baseUrl = ret.params.baseUrl
           /\ r.v.apiKey = IF ret.params.apiKey = Undefined \/ ret.params.apiKey = Val("")
                           THEN Null ELSE ret.params.apiKey

\* an endpoint was created with a key and resolves to it
C5_Witness ==
    /\ ret.fn = "create"
    /\ ~ret.threw
    /\ ret.params.apiKey = Val("k1")
    /\ getCustomEndpointByName(db, ret.params.workspaceId, ret.params.name).v.apiKey
         = Val("k1")

-----------------------------------------------------------------------------
(* C6 *)

\* C6: right after a successful update(id, params): with apiKey null the
\* endpoint has no key (hasApiKey false, resolve gives apiKey null); with
\* headers null it has no headers; with apiKey and headers both omitted,
\* resolve gives the apiKey and headers it gave before the update.
C6_UpdateTriState ==
    (ret.fn = "update" /\ ~ret.threw) =>
        \A view \in ret.value :
            LET now == getCustomEndpointByName(db, view.workspaceId, view.name)
            IN /\ now # Null
               /\ now.v.id = ret.endpointId
               /\ ret.params.apiKey = Null =>
                     ~view.hasApiKey /\ now.v.apiKey = Null
               /\ ret.params.headers = Null =>
                     view.headerNames = {} /\ now.v.headers = Null
               /\ (ret.params.apiKey = Undefined /\ ret.params.headers = Undefined) =>
                     /\ now.v.apiKey = ret.before.v.apiKey
                     /\ now.v.headers = ret.before.v.headers

\* the key of an endpoint that had one was cleared by update(id, {apiKey: null})
C6_Witness ==
    /\ ret.fn = "update"
    /\ ~ret.threw
    /\ ret.params.apiKey = Null
    /\ ret.before.v.apiKey = Val("k1")
    /\ ret.before.v.headers = Val(Headers1)

-----------------------------------------------------------------------------
(* C7 *)

\* true exactly when no row has (workspaceId, name) or the only such row is excludeId
RefNameAvailable(rows, workspaceId, name, excludeId) ==
    LET holders == {r.id : r \in {x \in rows : x.workspaceId = workspaceId /\ x.name = name}}
    IN \/ holders = {}
       \/ excludeId # Undefined /\ holders = {excludeId.v}

\* C7: in every state isEndpointNameAvailable(ws, name, excludeId) is true
\* exactly when no row has (ws, name) or the only one is excludeId; right
\* after create of name n in ws, n is unavailable in ws, available with the new
\* id excluded, and as available in every other workspace as before.
C7_NameAvailable ==
    /\ \A w \in Workspaces, n \in Names,
          x \in {Undefined} \cup {Val(i) : i \in KnownIds} :
            isEndpointNameAvailable(db, w, n, x) = RefNameAvailable(db, w, n, x)
    /\ (ret.fn = "create" /\ ~ret.threw) =>
          /\ ~isEndpointNameAvailable(db, ret.params.workspaceId, ret.params.name,
                                      Undefined)
          /\ isEndpointNameAvailable(db, ret.params.workspaceId, ret.params.name,
                                     Val(ret.params.id))
          /\ \A w \in Workspaces \ {ret.params.workspaceId} :
                isEndpointNameAvailable(db, w, ret.params.name, Undefined)
                    = ret.availableBefore[w]
    /\ ret.fn = "isNameAvailable" =>
          ret.value = RefNameAvailable(db, ret.workspaceId, ret.name, ret.excludeId)

\* isEndpointNameAvailable answered true for a taken name with its holder excluded
C7_Witness ==
    /\ ret.fn = "isNameAvailable"
    /\ ret.excludeId # Undefined
    /\ ret.value
    /\ SelectByName(db, ret.workspaceId, ret.name) # {}

-----------------------------------------------------------------------------
(* C9 *)

\* C9: a POST, or a PATCH that renames, which reaches its write while another
\* endpoint of the workspace holds the name is answered 409 with the name in
\* the message, and changes no row.
C9_CollisionAnswered409 ==
    (resp.status # 0 /\ resp.call.fn \in {"create", "update"} /\ resp.call.held) =>
        /\ resp.status = 409
        /\ resp.error = ErrConflict(resp.call.parsed.name)
        /\ ~resp.changed

-----------------------------------------------------------------------------
(* C10 *)

MutatingKinds == {"POST", "PATCH", "DELETE"}

IsAdmin(caller, workspaceId) ==
    /\ caller # Undefined
    /\ getUserEntityPermissions(caller.v, workspaceId) = Val("admin")

\* C10: a POST, PATCH or DELETE of a caller who is not admin of the workspace
\* in the URL is answered 401 without a session and 403 otherwise, in a step
\* that leaves the table as it was; and every step that changes the table is
\* the write of a handler whose caller is admin of its workspace.
C10_OnlyAdminChangesStore ==
    /\ [][(/\ resp'.status # 0
           /\ resp'.request.kind \in MutatingKinds
           /\ ~IsAdmin(resp'.request.caller, resp'.request.workspaceId))
          => /\ resp'.status = IF resp'.request.caller = Undefined THEN 401 ELSE 403
             /\ db' = db]_vars
    /\ [][db' # db =>
            \E slot \in Slots :
                /\ reqs[slot] # Idle
                /\ reqs'[slot] = Idle
                /\ IsAdmin(reqs[slot].request.caller, reqs[slot].request.workspaceId)]_vars

\* a signed-in member without admin permission was refused a POST
C10_Witness ==
    /\ resp.status = 403
    /\ resp.request.kind = "POST"
    /\ resp.request.caller = Val("alice")
    /\ resp.request.workspaceId = "w2"
    /\ db # {}

-----------------------------------------------------------------------------
(* C11 *)

DetailKinds == {"GET", "PATCH", "DELETE"}

HasEndpointId(request) == "endpointId" \in DOMAIN request

\* the id in the request is that of an endpoint of another workspace
Foreign(rows, request) ==
    \E r \in rows : r.id = request.endpointId /\ r.workspaceId # request.workspaceId

\* the id in the request is that of no endpoint
Absent(rows, request) == \A r \in rows : r.id # request.endpointId

NotFoundUnchanged ==
    /\ resp'.status = 404
    /\ resp'.error = ErrNotFound
    /\ resp'.payload = {}
    /\ db' = db

-----------------------------------------------------------------------------
(* What a reader of the table can know of the secrets *)

\* what each secret column holds for a reader: its plaintext, or null when the
\* column is empty, cannot be decrypted or (headers) is not JSON
ReadableApiKey(row) ==
    IF ~row.encryptedApiKey.null /\ row.encryptedApiKey.ok
    THEN Val(row.encryptedApiKey.pt) ELSE Null

ReadableHeaders(row) ==
    IF /\ ~row.encryptedHeaders.null
       /\ row.encryptedHeaders.ok
       /\ "json" \in DOMAIN row.encryptedHeaders.pt
    THEN Val(row.encryptedHeaders.pt.json) ELSE Null

-----------------------------------------------------------------------------
(* C12 *)

\* the step resolved a custom endpoint and awaits the executor
CustomResolved ==
    /\ ResolveStep
    /\ dispatch' # Idle
    /\ dispatch'.endpointConfig # Null

\* the row the endpoint was resolved from
ResolvedRow == CHOOSE r \in db : r.id = dispatch'.endpointConfig.v.id

\* a stored endpoint named by the request is resolved, never refused
StoredEndpointResolves ==
    LET providerId == Resolving.providerId
        request == Resolving.request
        endpointName == parseCustomModel(providerId, request.model).endpointName
    IN (/\ ResolveStep
        /\ providerId \in CustomProviderIds
        /\ request.workspaceId # Undefined
        /\ endpointName # <<>>
        /\ ~NoSuchEndpoint(db, request.workspaceId, endpointName))
       => CustomResolved

\* C12 as stated: after a successful custom-endpoint resolution the apiKey
\* handed to the executor is the endpoint's stored key, or "empty" when the
\* endpoint has none, never the inbound apiKey; and a missing key is no error.
C12_StoredKeyOrSentinelAsStated ==
    [][/\ StoredEndpointResolves
       /\ CustomResolved =>
            dispatch'.sanitizedRequest.apiKey =
                IF ResolvedRow.encryptedApiKey.null THEN Val("empty")
                ELSE Val(ResolvedRow.encryptedApiKey.pt)]_vars

\* C12, amended: after a successful custom-endpoint resolution the apiKey
\* handed to the executor is the endpoint's stored key when that key decrypts
\* to a non-empty string, and "empty" otherwise (no key, an empty key, a key
\* that cannot be decrypted), never the inbound apiKey; and a missing key is
\* no error.
C12_StoredKeyOrSentinel ==
    [][/\ StoredEndpointResolves
       /\ CustomResolved =>
            dispatch'.sanitizedRequest.apiKey =
                IF ReadableApiKey(ResolvedRow) \in {Null, Val("")} THEN Val("empty")
                ELSE ReadableApiKey(ResolvedRow)]_vars

\* a request that came with its own apiKey was resolved to an endpoint without
\* a key and awaits the executor with the sentinel
C12_Witness ==
    /\ dispatch # Idle
    /\ dispatch.endpointConfig # Null
    /\ dispatch.endpointConfig.v.apiKey = Null
    /\ dispatch.request.apiKey = Val("inbound-key")
    /\ dispatch.sanitizedRequest.apiKey = Val("empty")

-----------------------------------------------------------------------------
(* C13 *)

ResolvesFieldwise(resolved, row) ==
    /\ resolved # Null
    /\ resolved.v.id = row.id
    /\ resolved.v.baseUrl = row.baseUrl
    /\ resolved.v.apiKey = ReadableApiKey(row)
    /\ resolved.v.headers = ReadableHeaders(row)

\* C13: for every stored endpoint, resolveByName and resolveById succeed and
\* return each secret on its own: the apiKey is the stored key unless its own
\* decryption fails, the headers are the stored mapping unless their own
\* decryption or JSON parse fails, a failed field is null, and a failure of
\* one field changes neither the other field nor the success of the call.
C13_SecretsResolveFieldwise ==
    /\ \A row \in db :
        /\ ResolvesFieldwise(getCustomEndpointByName(db, row.workspaceId, row.name), row)
        /\ ResolvesFieldwise(getCustomEndpointById(db, row.id), row)
    /\ ret.fn \in {"getByName", "getById"} =>
        /\ ~ret.threw
        /\ ret.value # Null =>
              \E row \in db : row.id = ret.value.v.id /\ ResolvesFieldwise(ret.value, row)

\* resolveByName returned the key of an endpoint whose header blob no longer
\* decrypts, with headers null
C13_Witness ==
    /\ ret.fn = "getByName"
    /\ ret.value # Null
    /\ ret.value.v.apiKey = Val("k1")
    /\ ret.value.v.headers = Null
    /\ \E row \in db : row.id = ret.value.v.id /\ ~row.encryptedHeaders.null

-----------------------------------------------------------------------------
(* C14 *)

\* the header blob of the row itself can be read (or there is none)
OwnHeadersReadable(row) ==
    row.encryptedHeaders.null \/ ReadableHeaders(row) # Null

\* the headerNames that list(workspaceId) shows for the endpoint of a row
ListedHeaderNames(rows, row) ==
    {view.headerNames : view \in {v \in getCustomEndpoints(rows, row.workspaceId) :
                                     v.id = row.id}}

\* the keys of a headers argument; none when it is omitted or null
KeysOf(headers) == IF headers.k = "val" THEN ObjectKeys(headers.v) ELSE {}

\* the call just returned stored a headers argument for the endpoint id
StoredHeadersFor(r, id) ==
    /\ r.fn \in {"create", "update"}
    /\ ~r.threw
    /\ r.value # {}
    /\ \A e \in r.value : e.id = id
    /\ r.fn = "update" => r.params.headers # Undefined

\* C14: every endpoint of the table is listed once in its workspace, and
\* while its own header blob is readable its listed headerNames are the keys
\* of the headers last successfully stored for it: a create or update that
\* stores headers makes them the keys of its argument (none when null or
\* empty), and every other step, a decryption failure of another endpoint or
\* of the apiKey included, leaves the names listed before.
C14_ListedHeaderNames ==
    [][\A row \in db' :
          /\ Cardinality(ListedHeaderNames(db', row)) = 1
          /\ OwnHeadersReadable(row) =>
               IF StoredHeadersFor(ret', row.id)
               THEN ListedHeaderNames(db', row) = {KeysOf(ret'.params.headers)}
               ELSE \A old \in db :
                       old.id = row.id /\ OwnHeadersReadable(old) =>
                           ListedHeaderNames(db', row) = ListedHeaderNames(db, old)]_vars

\* list shows the header names of an endpoint whose apiKey can no longer be
\* decrypted
C14_Witness ==
    /\ ret.fn = "list"
    /\ \E view \in ret.value, row \in db :
          /\ row.id = view.id
          /\ ~row.encryptedApiKey.null
          /\ ~row.encryptedApiKey.ok
          /\ view.headerNames = {"h1"}

-----------------------------------------------------------------------------
(* C16 *)

\* C16: deleteCustomEndpoint never throws; on an id that is not in the table
\* (never created, or already deleted) it leaves the table as it was; and a
\* second delete of the same id changes nothing after the first.
C16_DeleteIdempotent ==
    /\ \A endpointId \in KnownIds :
          LET once == deleteCustomEndpoint(db, endpointId)
              twice == deleteCustomEndpoint(once.rows, endpointId)
          IN /\ ~once.threw
             /\ ~twice.threw
             /\ twice.rows = once.rows
             /\ SelectById(db, endpointId) = {} => once.rows = db
    /\ ret.fn = "delete" =>
          /\ ~ret.threw
          /\ SelectById(db, ret.endpointId) = {}
          /\ SelectById(ret.before, ret.endpointId) = {} => db = ret.before
          /\ db = {r \in ret.before : r.id # ret.endpointId}

\* a delete of an id that had been handed out and is in the table no more (or
\* never got there) returned, other endpoints still being stored
C16_Witness ==
    /\ ret.fn = "delete"
    /\ ~ret.threw
    /\ ret.endpointId \in 1..nextId
    /\ SelectById(ret.before, ret.endpointId) = {}
    /\ db = ret.before
    /\ db # {}

-----------------------------------------------------------------------------
(* C15 *)

\* a dispatch that starts and names an endpoint among references is rejected
\* as not found before any executor; and a delete takes the rows of its id
\* out of the table and touches nothing else, the request in flight included
DanglingIsFatal(references) ==
    LET providerId == Resolving.providerId
        request == Resolving.request
        endpointName == parseCustomModel(providerId, request.model).endpointName
    IN /\ (/\ ResolveStep
           /\ providerId \in CustomProviderIds
           /\ request.workspaceId # Undefined
           /\ \E g \in references : /\ g.workspaceId = request.workspaceId.v
                                    /\ g.name = endpointName)
          => /\ dispatch' = Idle
             /\ outcome'.threw
             /\ outcome'.error = ErrEndpointNotFound(endpointName)
             /\ ~outcome'.invoked
       /\ ret'.fn = "delete" =>
             /\ db' = {r \in db : r.id # ret'.endpointId}
             /\ dispatch' = dispatch

\* C15 as stated: after a delete of an endpoint, every dispatch that starts
\* with its name and workspace is rejected as not found and reaches no
\* executor, until an endpoint with that name is created again; the delete
\* changes no other row and no request.
C15_DanglingReferenceFailsAsStated == [][DanglingIsFatal(gone)]_vars

\* C15, amended: the same, until an endpoint with that name is created again
\* or another endpoint of the workspace is renamed to it.
C15_DanglingReferenceFails ==
    [][DanglingIsFatal({g \in gone : ~g.renamed})]_vars

\* a dispatch naming a deleted endpoint was rejected as not found while the
\* workspace still had another endpoint
C15_Witness ==
    /\ outcome.threw
    /\ ~outcome.invoked
    /\ outcome.request.workspaceId = Val("w1")
    /\ outcome.error = ErrEndpointNotFound(NameB)
    /\ [workspaceId |-> "w1", name |-> NameB, renamed |-> FALSE] \in gone
    /\ \E r \in db : r.workspaceId = "w1"

-----------------------------------------------------------------------------
(* C17 *)

\* the request names the stored endpoint of a row: its workspace, and the
\* model string "custom-<family>:<name>/<m>"
NamesEndpoint(providerId, request, row) ==
    /\ request.workspaceId = Val(row.workspaceId)
    /\ Len(request.model) > Len(row.name) + 2
    /\ SubSeq(request.model, 1, Len(row.name) + 2)
          = <<PrefixOf(providerId)>> \o row.name \o <<Slash>>

\* the <m> of such a model string
OutboundModel(request, name) ==
    SubSeq(request.model, Len(name) + 3, Len(request.model))

\* the step is executeProviderRequest from its call of the executor on
ExecuteStep == dispatch # Idle /\ dispatch' = Idle

\* a dispatch that names a stored endpoint e is resolved to e, and its
\* executor calls the upstream API with the base URL of e, the key that
\* UpstreamKey makes of the key of e, and the model <m>
EndToEnd(UpstreamKey(_)) ==
    /\ \A row \in db :
          (/\ ResolveStep
           /\ Resolving.providerId \in CustomProviderIds
           /\ NamesEndpoint(Resolving.providerId, Resolving.request, row))
          => /\ dispatch' # Idle
             /\ dispatch'.endpointConfig # Null
             /\ dispatch'.endpointConfig.v.id = row.id
             /\ dispatch'.endpointConfig.v.baseUrl = row.baseUrl
             /\ dispatch'.endpointConfig.v.apiKey = ReadableApiKey(row)
    /\ (/\ ExecuteStep
        /\ dispatch.providerId \in CustomProviderIds
        /\ dispatch.endpointConfig # Null)
       => LET e == dispatch.endpointConfig.v
          IN /\ outcome'.returned \/ (outcome'.invoked /\ outcome'.error = ErrUpstream)
             /\ outcome'.returned =>
                   /\ outcome'.upstream.baseUrl = Val(e.baseUrl)
                   /\ outcome'.upstream.apiKey = UpstreamKey(e.apiKey)
                   /\ outcome'.upstream.model = OutboundModel(dispatch.request, e.name)

AsStored(apiKey) == apiKey

EmptyWhenNone(apiKey) == IF apiKey \in {Null, Val("")} THEN Val("empty") ELSE apiKey

\* C17 as stated: dispatching "custom-<family>:<e.name>/<m>" with the
\* workspace of a stored endpoint e calls the upstream API with base URL
\* e.baseUrl, API key e.apiKey and model <m>.
C17_EndToEndAsStated == [][EndToEnd(AsStored)]_vars

\* C17, amended: the same, with the API key e.apiKey when e has a key that
\* can be read and is not empty, and the key "empty" otherwise.
C17_EndToEnd == [][EndToEnd(EmptyWhenNone)]_vars

\* a dispatch of "custom-google:a/b" returned after the upstream API was
\* called with the base URL and key of endpoint "a" and the model "b"
C17_Witness ==
    /\ outcome.returned
    /\ outcome.providerId = "custom-google"
    /\ outcome.request.model = <<PrefixGoogle, "a", Slash, "b">>
    /\ outcome.endpointConfig # Null
    /\ outcome.upstream.baseUrl = Val("https://h2")
    /\ outcome.upstream.apiKey = Val("k1")
    /\ outcome.upstream.model = <<"b">>

-----------------------------------------------------------------------------
(* C18 *)

\* C18: a dispatch whose request has the responseFormat "" or a blank one
\* hands the executor a request with responseFormat undefined and the system
\* prompt of the inbound request; the format raises no error.
C18_EmptyFormatCleared ==
    [][(/\ ResolveStep
        /\ Resolving.request.responseFormat \in {Val(""), Val(" ")}
        /\ dispatch' # Idle)
       => /\ dispatch'.sanitizedRequest.responseFormat = Undefined
          /\ dispatch'.sanitizedRequest.systemPrompt = dispatch'.request.systemPrompt]_vars

-----------------------------------------------------------------------------
(* C20 *)

\* the provider is registered with an executor and is none of the custom families
HostedWithExecutor(providerId) ==
    /\ providerId \notin CustomProviderIds
    /\ getProviderExecutor(providerId) # Undefined
    /\ getProviderExecutor(providerId).v.executeRequest

\* C20: a dispatch to a provider that is none of the custom families, with a
\* workspaceId, looks up no custom endpoint (it resolves none and is never
\* rejected as not found) and, when the BYOK resolution returns, hands the
\* executor the apiKey and the isBYOK that resolution returned; only such a
\* dispatch runs the BYOK resolution; and a dispatch that ran none hands over
\* isBYOK false, whatever isBYOK the inbound request carried.
C20_ByokPropagated ==
    [][ResolveStep =>
        LET providerId == Resolving.providerId
            request == Resolving.request
            hosted == HostedWithExecutor(providerId) /\ request.workspaceId # Undefined
        IN /\ hosted =>
                /\ Resolving.endpointConfig = Null
                /\ dispatch' = Idle => outcome'.error = ErrApiKey
                /\ dispatch' # Idle =>
                      /\ dispatch'.byok # NoByok
                      /\ dispatch'.sanitizedRequest.apiKey = dispatch'.byok.apiKey
                      /\ dispatch'.sanitizedRequest.isBYOK = Val(dispatch'.byok.isBYOK)
                      /\ dispatch'.isBYOK = dispatch'.byok.isBYOK
           /\ (dispatch' # Idle /\ ~hosted) =>
                /\ dispatch'.byok = NoByok
                /\ dispatch'.sanitizedRequest.isBYOK = Val(FALSE)
                /\ ~dispatch'.isBYOK]_vars

\* a request that came with isBYOK true and its own key awaits a hosted
\* executor with the platform's key and isBYOK false, as the BYOK resolution
\* returned them
C20_Witness ==
    /\ dispatch # Idle
    /\ dispatch.providerId \notin CustomProviderIds
    /\ dispatch.request.isBYOK = Val(TRUE)
    /\ dispatch.request.apiKey = Val("inbound-key")
    /\ dispatch.byok = [threw |-> FALSE, apiKey |-> Val("platform-key"), isBYOK |-> FALSE]
    /\ dispatch.sanitizedRequest.apiKey = Val("platform-key")
    /\ dispatch.sanitizedRequest.isBYOK = Val(FALSE)

-----------------------------------------------------------------------------
(* C19 *)

\* the step returns from getCustomEndpointByName
ResolveReturns ==
    \/ lookup # Idle /\ lookup' = Idle
    \/ lookup = Idle /\ lookup' = Idle /\ ops' # ops /\ ret'.fn = "getByName"

\* C19: whatever creates, updates and deletes are committed while
\* getCustomEndpointByName runs, it returns null only when the table its
\* select read had no endpoint of that name in the workspace, and otherwise
\* the descriptor of one row of that table: id, name, baseUrl, apiKey and
\* headers all of that one committed version.
C19_OneCommittedVersion ==
    [][ResolveReturns =>
        LET rows == SelectByName(ret'.selected, ret'.workspaceId, ret'.endpointName)
        IN /\ ret'.fn = "getByName"
           /\ ~ret'.threw
           /\ IF ret'.value = Null
              THEN rows = {}
              ELSE \E version \in rows :
                      /\ ret'.value.v.id = version.id
                      /\ ret'.value.v.name = version.name
                      /\ ret'.value.v.baseUrl = version.baseUrl
                      /\ ret'.value.v.apiKey = ReadableApiKey(version)
                      /\ ret'.value.v.headers = ReadableHeaders(version)]_vars

\* a lookup returned the key and headers of a version that an update
\* committed during the call had already replaced
C19_Witness ==
    /\ ret.fn = "getByName"
    /\ ret.value # Null
    /\ ret.value.v.apiKey = Val("k1")
    /\ ret.value.v.headers = Val(Headers1)
    /\ \E r \in db : /\ r.id = ret.value.v.id
                     /\ ReadableApiKey(r) = Val("k2")
                     /\ ReadableHeaders(r) = Val(Headers2)

-----------------------------------------------------------------------------
(* C21 *)

\* the columns no operation changes once the row is inserted
FixedColumns == {"id", "workspaceId", "apiType", "createdBy", "createdAt"}

\* C21: a successful update(id, params) gives the row of id the name and the
\* baseUrl of params where present and leaves them otherwise, sets updatedAt
\* to the time of the call, and changes none of id, workspaceId, apiType,
\* createdBy, createdAt; it changes no column of any other row, and a failed
\* update changes nothing; and no step of any operation changes a fixed
\* column of a row that stays, so apiType keeps its creation value.
C21_UpdateFrame ==
    [][/\ \A old \in db, new \in db' :
              old.id = new.id => \A c \in FixedColumns : new[c] = old[c]
       /\ ret'.fn = "update" =>
            /\ \A old \in db : old.id # ret'.endpointId => old \in db'
            /\ \A new \in db' : new.id # ret'.endpointId => new \in db
            /\ ret'.threw => db' = db
            /\ ~ret'.threw =>
                 \E old \in db, new \in db' :
                    /\ old.id = ret'.endpointId
                    /\ new.id = ret'.endpointId
                    /\ new.name = IF ret'.params.name = Undefined THEN old.name
                                  ELSE ret'.params.name.v
                    /\ new.baseUrl = IF ret'.params.baseUrl = Undefined THEN old.baseUrl
                                     ELSE ret'.params.baseUrl.v
                    /\ new.updatedAt = Date
                    /\ new.updatedAt >= old.updatedAt]_vars

\* an update without name and baseUrl went through on an endpoint created as
\* google: its updatedAt moved, its apiType did not
C21_Witness ==
    /\ ret.fn = "update"
    /\ ~ret.threw
    /\ ret.params.name = Undefined
    /\ ret.params.baseUrl = Undefined
    /\ \E r \in db : /\ r.id = ret.endpointId
                     /\ r.apiType = "google"
                     /\ r.updatedAt > r.createdAt

-----------------------------------------------------------------------------
(* C22 *)

\* C22: a create that returned has stored the row of its id with the apiKey
\* column null exactly when params.apiKey is omitted or empty, and otherwise
\* the encryption of that key; with the headers column null exactly when the
\* mapping is omitted or empty, and otherwise the encryption of its JSON; it
\* returns hasApiKey accordingly and headerNames equal to the keys of the
\* mapping given; and it has made no call of decryptSecret.
C22_CreateStoresNullForEmpty ==
    (ret.fn = "create" /\ ~ret.threw) =>
        /\ ret.decryptCalls = 0
        /\ \E row \in db :
            /\ row.id = ret.params.id
            /\ row.encryptedApiKey =
                  IF ret.params.apiKey \in {Undefined, Null, Val("")} THEN SqlNull
                  ELSE encryptSecret(ret.params.apiKey.v)
            /\ row.encryptedHeaders =
                  IF KeysOf(ret.params.headers) = {} THEN SqlNull
                  ELSE encryptSecret(JsonStringify(ret.params.headers.v))
            /\ \A view \in ret.value :
                  /\ view.id = row.id
                  /\ view.hasApiKey = ~row.encryptedApiKey.null
                  /\ view.headerNames = KeysOf(ret.params.headers)
        /\ ret.value # {}

\* a create with the key "" and an empty mapping returned, and its row has
\* neither secret
C22_Witness ==
    /\ ret.fn = "create"
    /\ ~ret.threw
    /\ ret.params.apiKey = Val("")
    /\ ret.params.headers = Val(EmptyHeaders)
    /\ \E row \in db : /\ row.id = ret.params.id
                       /\ row.encryptedApiKey.null
                       /\ row.encryptedHeaders.null

-----------------------------------------------------------------------------
(* C23 *)

\* the connection a request carries under the field names of its family
Connection(providerId, request) ==
    CASE providerId = "custom-openai" ->
            [baseUrl |-> request.customOpenaiBaseUrl,
             headers |-> request.customOpenaiHeaders, apiKey |-> request.apiKey]
      [] providerId = "custom-anthropic" ->
            [baseUrl |-> request.customAnthropicBaseUrl,
             headers |-> request.customAnthropicHeaders, apiKey |-> request.apiKey]
      [] providerId = "custom-google" ->
            [baseUrl |-> request.customGoogleBaseUrl,
             headers |-> request.customGoogleHeaders, apiKey |-> request.apiKey]

\* the connection the dispatcher makes of a stored row
ConnectionOf(row) ==
    [baseUrl |-> Val(row.baseUrl),
     headers |-> IF ReadableHeaders(row) = Null THEN Undefined ELSE ReadableHeaders(row),
     apiKey |-> EmptyWhenNone(ReadableApiKey(row))]

\* C23: a custom-family dispatch with workspaceId W and endpoint name n is
\* rejected as not found, before any executor, when W has no endpoint named
\* n, whatever other workspaces have; otherwise it awaits the executor with
\* the endpoint of W resolved and the baseUrl, apiKey and headers of the row
\* of W merged into the request.
C23_WorkspaceIsolation ==
    [][ResolveStep =>
        LET providerId == Resolving.providerId
            request == Resolving.request
        IN (providerId \in CustomProviderIds /\ request.workspaceId # Undefined) =>
            LET n == parseCustomModel(providerId, request.model).endpointName
                mine == {r \in db : r.workspaceId = request.workspaceId.v /\ r.name = n}
            IN n # <<>> =>
                IF mine = {}
                THEN /\ dispatch' = Idle
                     /\ outcome'.error = ErrEndpointNotFound(n)
                     /\ ~outcome'.invoked
                ELSE /\ dispatch' # Idle
                     /\ dispatch'.endpointConfig # Null
                     /\ dispatch'.endpointConfig.v.workspaceId = request.workspaceId.v
                     /\ \E row \in mine :
                          /\ dispatch'.endpointConfig.v.id = row.id
                          /\ Connection(providerId, dispatch'.sanitizedRequest)
                                = ConnectionOf(row)]_vars

\* a dispatch of w1 for endpoint "b" awaits the executor with the base URL of
\* the "b" of w1 while w2 has a "b" with another base URL
C23_Witness ==
    /\ dispatch # Idle
    /\ dispatch.providerId = "custom-anthropic"
    /\ dispatch.request.workspaceId = Val("w1")
    /\ dispatch.endpointConfig # Null
    /\ dispatch.endpointConfig.v.name = NameB
    /\ dispatch.sanitizedRequest.customAnthropicBaseUrl = Val("https://h2")
    /\ \E r \in db : r.workspaceId = "w2" /\ r.name = NameB /\ r.baseUrl = "https://h1"

-----------------------------------------------------------------------------
(* C25 *)

\* C25: the custom-google executor calls the upstream API only with the base
\* URL of an endpoint the dispatcher resolved for the request; for a request
\* for which none was resolved (no workspaceId, no endpoint name, no base
\* URL) it makes no call and fails with the "not configured" error.
C25_UpstreamOnlyResolved ==
    [][(ExecuteStep /\ dispatch.providerId = "custom-google") =>
        LET parsed == parseCustomGoogleModel(dispatch.request.model)
        IN IF dispatch.endpointConfig = Null
           THEN /\ outcome'.threw
                /\ outcome'.error = ErrNotConfigured(parsed.endpointName)
           ELSE outcome'.returned =>
                   outcome'.upstream.baseUrl = Val(dispatch.endpointConfig.v.baseUrl)]_vars

-----------------------------------------------------------------------------
(* C26 *)

\* the apiType an endpoint must have to be listed under a provider id
FamilyOf(providerId) ==
    CASE providerId = "custom-openai" -> "openai"
      [] providerId = "custom-anthropic" -> "anthropic"
      [] providerId = "custom-google" -> "google"

\* C26: a custom-family dispatch that resolved an endpoint and merged its
\* connection resolved an endpoint whose apiType is the family of the
\* provider id.
C26_FamilyMatches ==
    [][(/\ ResolveStep
        /\ dispatch' # Idle
        /\ dispatch'.providerId \in CustomProviderIds
        /\ dispatch'.endpointConfig # Null)
       => dispatch'.endpointConfig.v.apiType = FamilyOf(dispatch'.providerId)]_vars

-----------------------------------------------------------------------------
(* C27 *)

\* the secrets of a row can be decrypted
Decrypts(row) ==
    /\ row.encryptedApiKey.null \/ row.encryptedApiKey.ok
    /\ row.encryptedHeaders.null \/ row.encryptedHeaders.ok

\* hasApiKey of the row as the list reports it
ListedHasApiKey(rows, row) ==
    (CHOOSE e \in getCustomEndpoints(rows, row.workspaceId) : e.id = row.id).hasApiKey

\* hasApiKey of the row as the detail GET computes it: !!endpoint.apiKey
DetailHasApiKey(rows, row) ==
    TruthyString(getCustomEndpointById(rows, row.id).v.apiKey)

\* the dispatcher would find a key that is not empty
ResolvesNonEmptyKey(rows, row) ==
    TruthyString(getCustomEndpointByName(rows, row.workspaceId, row.name).v.apiKey)

\* C27: for every stored endpoint whose secrets decrypt, the hasApiKey of the
\* list, of the detail GET and of the update that last returned it are the
\* same, and it is true exactly when the lookup by name returns an apiKey
\* that is not empty.
C27_HasApiKeyAgrees ==
    \A row \in db :
        Decrypts(row) =>
            /\ ListedHasApiKey(db, row) = DetailHasApiKey(db, row)
            /\ ListedHasApiKey(db, row) = ResolvesNonEmptyKey(db, row)
            /\ (/\ ret.fn = "update"
                /\ ~ret.threw
                /\ ret.endpointId = row.id)
               => \A v \in ret.value : v.hasApiKey = ListedHasApiKey(db, row)

-----------------------------------------------------------------------------
(* C28 *)

\* the plaintext secrets among the params of a call: the apiKey and every
\* header value
PlaintextSecrets(params) ==
    (IF TruthyString(params.apiKey) THEN {params.apiKey.v} ELSE {})
    \cup (IF IsVal(params.headers)
          THEN {params.headers.v[h] : h \in DOMAIN params.headers.v} ELSE {})

\* the plaintext secrets a log record carries: those of the params object,
\* when the record holds one
LoggedValues(log) ==
    IF "params" \in DOMAIN log.data
    THEN PlaintextSecrets(log.data.params)
    ELSE {}

\* C28: the log record of a createCustomEndpoint or updateCustomEndpoint that
\* was given secrets carries none of them, whether the call returned or threw.
C28_LogsCarryNoSecrets ==
    (ret.fn \in {"create", "update"}) =>
        LoggedValues(ret.log) \cap PlaintextSecrets(ret.params) = {}

-----------------------------------------------------------------------------
(* C29 *)

\* the PATCH just answered had passed its existence check and reached
\* updateCustomEndpoint after a DELETE had removed its endpoint
PatchOvertakenByDelete ==
    /\ resp.status # 0
    /\ resp.request.kind = "PATCH"
    /\ resp.call.fn = "update"
    /\ resp.call.before = Null

\* C29: a PATCH whose endpoint a DELETE removed between its check and its
\* update is answered 200 or 404 'Endpoint not found', never 500, and leaves
\* no row of that id in the table.
C29_PatchRacesDelete ==
    PatchOvertakenByDelete =>
        /\ resp.status \in {200, 404}
        /\ resp.status = 404 => resp.error = ErrNotFound
        /\ \A r \in db : r.id # resp.request.endpointId

-----------------------------------------------------------------------------
(* C30 *)

\* C30: an update whose headers is the empty mapping leaves the table and
\* returns the value that the same update with headers null would: the
\* endpoint's header blob is null, the returned headerNames is empty, and a
\* lookup by name afterwards returns headers null.
C30_EmptyHeadersClear ==
    [][(/\ ops' = ops + 1
        /\ ret'.fn = "update"
        /\ ~ret'.threw
        /\ ret'.params.headers = Val(EmptyHeaders))
       => LET asNull == updateCustomEndpoint(db, ret'.endpointId,
                                             [ret'.params EXCEPT !.headers = Null])
          IN /\ ~asNull.threw
             /\ db' = asNull.rows
             /\ ret'.value = {asNull.value}
             /\ \A v \in ret'.value : v.headerNames = {}
             /\ \A r \in db' :
                   r.id = ret'.endpointId =>
                      /\ r.encryptedHeaders = SqlNull
                      /\ getCustomEndpointByName(db', r.workspaceId, r.name).v.headers
                            = Null]_vars

\* an update with the empty mapping returned, on an endpoint that had headers
C30_Witness ==
    /\ ret.fn = "update"
    /\ ~ret.threw
    /\ ret.params.headers = Val(EmptyHeaders)
    /\ ret.before # Null
    /\ IsVal(ret.before.v.headers)
    /\ \E r \in db : r.id = ret.endpointId /\ r.encryptedHeaders = SqlNull

-----------------------------------------------------------------------------
(* C24 *)

\* the edit dialog of an endpoint that has stored headers, every header
\* value blank
EditWithBlankValues ==
    /\ isEditing
    /\ form.editingEndpoint.v.headerNames # {}
    /\ Len(form.formData.headers) > 0
    /\ \A i \in DOMAIN form.formData.headers :
          /\ form.formData.headers[i].key \in form.editingEndpoint.v.headerNames
          /\ TrimText(form.formData.headers[i].value) = ""

\* C24: saving the edit dialog of an endpoint with stored headers while every
\* header value is blank raises no validation error and issues an update
\* whose headers field is omitted.
C24_BlankValuesKeepHeaders ==
    [][(EditWithBlankValues /\ handleSave) =>
          /\ form'.sent # NoCall
          /\ form'.sent.fn = "update"
          /\ form'.sent.headers = Undefined
          /\ form'.error \in {Null, Val("Failed to save endpoint")}]_vars

====
